---- MODULE Spec2Model ----
(***************************************************************************)
(* Model of graph_postgres_manager.                                        *)
(*                                                                         *)
(* Part 1: the transaction engine (transactions/manager.py) on top of the  *)
(* two backend adapters (connections/neo4j.py, connections/postgres.py).   *)
(*                                                                         *)
(* The engine is asyncio code: one thread, tasks interleave at awaits.     *)
(* Every engine operation (entering a transaction scope, one call made by  *)
(* the body, leaving the scope) is one action.  Driver failures are the    *)
(* inputs of the actions: every driver call may succeed or raise.          *)
(* Sequential code is modelled by operators that take the "world" (the     *)
(* record of everything the engine and the adapters can change) and        *)
(* return the new world together with the exception that was raised.       *)
(***************************************************************************)
EXTENDS Integers, Sequences, FiniteSets, TLC

\* ---------------------------------------------------------------- bounds
NumTasks == 2        \* asyncio tasks using the one TransactionManager
MaxCtx == 2          \* transaction contexts created in one behaviour
MaxExec == 1         \* queries run in one behaviour
MaxFaults == 1       \* driver calls that raise in one behaviour
MaxRetry == 1        \* largest max_retry_attempts configured
MaxDelay == 2        \* largest retry_max_delay configured (seconds)
MaxConnFaults == 2   \* driver calls of the supervisor that fail in one behaviour
MaxRuns == 3         \* times one execute_query call hands its query to the driver
MaxRows == 3         \* rows given to one batch_insert call
MaxBatch == 2        \* largest batch_size of a batch_insert call
MaxCreated == 2      \* largest nodes-created counter one query reports
MaxAstNodes == 2     \* nodes in one AST payload
MaxAstEdges == 1     \* edges in one AST payload
MaxStores == 2       \* store_ast_graph calls in one behaviour
MaxLinks == 2        \* link_intent_to_ast transactions in one behaviour
MaxHits == 1         \* results one branch search returns

Tasks == 1..NumTasks
CtxIds == 1..MaxCtx

\* ---------------------------------------------------------------- values
None == 0            \* Python None for a transaction handle

\* TransactionState (plus "absent": the context object does not exist yet)
TransactionState ==
    {"pending", "active", "preparing", "prepared", "committing",
     "committed", "rolling_back", "rolled_back", "failed"}

\* outcome of one driver call: it succeeds, the driver operation raises, or
\* the driver operation succeeds and releasing the session / pooled
\* connection afterwards raises
Faults == {"ok", "fail", "fail_release"}

\* adapter methods whose calls are counted per context
Methods ==
    {"n_begin", "p_begin", "n_commit", "p_commit", "n_rollback",
     "p_rollback", "n_prepare", "p_prepare", "n_commit_prepared",
     "p_commit_prepared", "n_execute", "p_execute"}

\* the transaction-control methods of an adapter (everything but queries)
TxMethods == Methods \ {"n_execute", "p_execute"}

VARIABLES
    enable_two_phase_commit, \* TransactionManager.enable_two_phase_commit
    active_transactions,     \* keys of TransactionManager._active_transactions
    next_id,                 \* number of transaction ids handed out (uuid4)
    stack,                   \* per task: the scopes it is inside, innermost last
    ctx,                     \* the TransactionContext objects
    neo4j_handles,           \* (session, tx) pairs the graph adapter opened
    postgres_handles,        \* pooled connections the SQL adapter handed out
    neo4j_store,             \* durable graph data: tags of the writing context
    postgres_store,          \* durable SQL data: tags of the writing context
    calls,                   \* per context: number of calls of each adapter method
    faulted,                 \* per context: adapter methods that raised
    exc,                     \* per context: what each engine call raised
    fault_count,             \* number of driver calls that raised so far
    query_count,             \* number of queries run so far
    last_exited              \* the context whose scope exited last (None: none yet)

\* the connection supervisor (connections/base.py and the adapters'
\* connect / disconnect / health_check)
VARIABLES
    max_retry_attempts,            \* ConnectionConfig.max_retry_attempts
    retry_max_delay,               \* ConnectionConfig.retry_max_delay (seconds)
    enable_auto_reconnect,         \* ConnectionConfig.enable_auto_reconnect
    conn_state,                    \* per adapter: BaseConnection._state
    driver,                        \* per adapter: _driver / _pool is not None
    retry_count,                   \* per adapter: BaseConnection._retry_count
    circuit_breaker_open,          \* per adapter: _circuit_breaker_open
    circuit_breaker_last_failure,  \* per adapter: seconds since
                                   \* _circuit_breaker_last_failure
    call,                          \* per adapter and caller: the caller's
                                   \* operation on the adapter
    conn_faults                    \* number of driver calls (connect, close,
                                   \* probe, query, schema setup) that failed

engine_vars ==
    <<enable_two_phase_commit, active_transactions, next_id, stack, ctx,
      neo4j_handles, postgres_handles, neo4j_store, postgres_store, calls,
      faulted, exc, fault_count, query_count, last_exited>>

supervisor_vars ==
    <<max_retry_attempts, retry_max_delay, enable_auto_reconnect, conn_state,
      driver, retry_count, circuit_breaker_open, circuit_breaker_last_failure,
      call, conn_faults>>

\* the facade (manager.py): lifecycle and health check loop
VARIABLES
    is_initialized,     \* GraphPostgresManager._is_initialized
    health_check_task,  \* GraphPostgresManager._health_check_task
    loop,               \* the tasks running _health_check_loop
    facade_pc,          \* where the user's initialize / close call is
    last_returned       \* the facade call that returned last

facade_vars ==
    <<is_initialized, health_check_task, loop, facade_pc, last_returned>>

\* the adapters' data operations and the services built on them
VARIABLES
    query,      \* a call of Neo4jConnection.execute_query
    batch,      \* a call of Neo4jConnection.batch_insert
    ast,        \* store_ast_graph: the payload, the graph store, the call
    intent,     \* IntentManager: the mapping and vector tables, the call
    search      \* SearchManager.search: the query, the candidates, the call

service_vars == <<query, batch, ast, intent, search>>

\* a ConnectionConfig and what mask_sensitive_data returned for it
VARIABLES config

vars == <<engine_vars, supervisor_vars, facade_vars, service_vars, config>>

\* ------------------------------------------------- connection supervisor
Adapters == {"neo4j", "postgres"}

\* the tasks that run _health_check_loop: the one the first initialize that
\* gets that far creates, and the one a later initialize creates
LoopIds == {"loop1", "loop2"}

\* who has an operation in progress on an adapter: a user operation, or the
\* reconnect of a health check loop
Callers == {"user"} \cup LoopIds

ConnectionState ==
    {"disconnected", "connecting", "connected", "reconnecting", "failed",
     "closed"}

\* _circuit_breaker_last_failure is None
NoFailure == -1

\* ConnectionConfig.retry_backoff_factor (default 2.0)
retry_backoff_factor == 2

\* no operation of the caller is in progress on the adapter
\*   pc         where the operation is: "idle", "attempt" (at the top of the
\*              retry loop), "connecting" (awaiting inside connect),
\*              "sleeping" (awaiting the backoff sleep), "done"
\*   op         the operation: "connect", "connect_with_retry",
\*              "ensure_connected", "query"
\*   attempt    the loop variable of connect_with_retry
\*   remaining  seconds the backoff sleep still lasts
\*   outcomes   what each attempt so far did: "ok", "connect_failed",
\*              "short_circuit"
\*   last_error connect_with_retry's local last_error
\*   half_open  an attempt of the call found the breaker open and was let
\*              through
\*   result     what the operation raised ("ok": it returned)
IdleCall ==
    [pc |-> "idle", op |-> "none", attempt |-> 0, remaining |-> 0,
     outcomes |-> <<>>, last_error |-> "none", half_open |-> FALSE,
     result |-> "none"]

\* BaseConnection.__init__ and the adapter's __init__
SupervisorInit(attempts, delay, auto) ==
    /\ max_retry_attempts = attempts
    /\ retry_max_delay = delay
    /\ enable_auto_reconnect = auto
    /\ conn_state = [a \in Adapters |-> "disconnected"]
    /\ driver = [a \in Adapters |-> FALSE]
    /\ retry_count = [a \in Adapters |-> 0]
    /\ circuit_breaker_open = [a \in Adapters |-> FALSE]
    /\ circuit_breaker_last_failure = [a \in Adapters |-> NoFailure]
    /\ call = [a \in Adapters |-> [k \in Callers |-> IdleCall]]
    /\ conn_faults = 0

\* no task runs _health_check_loop
\*   pc                "absent", "sleeping" (awaiting the interval sleep),
\*                     "probe_neo4j", "probe_postgres" (awaiting the probe),
\*                     "reconnecting" (awaiting the gather), "terminated"
\*   cancel_requested  Task.cancel() was called and not yet delivered
\*   healthy           per adapter: the result of its probe in this iteration
\*   reconnected       the adapters connect_with_retry was invoked on in this
\*                     iteration
\*   survived          a connect_with_retry of an earlier gather raised
NoLoop ==
    [pc |-> "absent", cancel_requested |-> FALSE,
     healthy |-> [a \in Adapters |-> TRUE], reconnected |-> {},
     survived |-> FALSE]

\* GraphPostgresManager.__init__
FacadeInit ==
    /\ is_initialized = FALSE
    /\ health_check_task = "none"
    /\ loop = [i \in LoopIds |-> NoLoop]
    /\ facade_pc = "idle"
    /\ last_returned = "none"

\* no call of execute_query is in progress
\*   pc           "idle", "ensuring" (awaiting ensure_connected), "running"
\*                (awaiting the driver), "reconnecting" (awaiting
\*                connect_with_retry in the except clause), "done"
\*   transaction  the call was given a transaction handle
\*   runs         how often the query was handed to the driver
\*   reconnects   how often the except clause called connect_with_retry
\*   result       "ok" or the exception raised
NoQuery ==
    [pc |-> "idle", transaction |-> FALSE, runs |-> 0, reconnects |-> 0,
     result |-> "none"]

QueryInit == query = NoQuery

\* no call of batch_insert is in progress
\*   pc              "idle", "session" (inside the session, awaiting a
\*                   query), "done"
\*   data            the rows given (a row is named by its position)
\*   batch_size      the batch size given
\*   i               the loop variable: the offset of the next slice
\*   submitted       per query run so far, the rows it received
\*   counters        per query run so far, the nodes-created counter reported
\*   sessions        the number of sessions opened
\*   total_inserted  the running sum
\*   result          the value returned
\*   raised          the exception raised, "none" when the call returned
NoBatch ==
    [pc |-> "idle", data |-> <<>>, batch_size |-> 1, i |-> 0,
     submitted |-> <<>>, counters |-> <<>>, sessions |-> 0,
     total_inserted |-> 0, result |-> 0, raised |-> "none"]

BatchInit == batch = NoBatch

\* AST payloads: the node ids and source ids used, and the marker of a field
\* a dictionary does not have
AstIds == {"a", "b"}

SourceIds == {"s1", "s2"}

Missing == "<missing>"

\* EdgeType (models/ast.py)
EdgeTypes == {"CHILD", "NEXT", "DEPENDS_ON"}

\* what identifies a stored ASTNode for MERGE, and a stored relationship
NodeKeys == AstIds \X SourceIds

EdgeKeys == AstIds \X EdgeTypes \X AstIds \X SourceIds

\* a payload that has neither key
NoGraph ==
    [has_nodes |-> FALSE, has_edges |-> FALSE, nodes |-> <<>>, edges |-> <<>>]

\* no call of store_ast_graph is in progress, the graph store is empty
\*   pc            "idle", "nodes" (awaiting the node query), "edges"
\*                 (awaiting the edge query), "done"
\*   graph         the payload of the call, source_id its source id
\*   metadata      the metadata argument of the call
\*   written       the (id, source_id) keys the node query of the call merged on
\*   nodes         the graph store: per (id, source_id) the number of ASTNode
\*                 nodes; node_type: their node_type property
\*   edges         the graph store: per (source, type, target, source_id) the
\*                 number of relationships
\*   before_nodes, before_types, before_edges
\*                 the graph store when the call began
\*   repeat        the call repeats the payload and source id of the call
\*                 before it, which returned
\*   queries       the queries the call has issued
\*   total_nodes, total_edges   the counters the call returns
\*   raised        the exception raised, "none" when the call returned
\*   calls         the calls made so far
\* The metadata argument of store_ast_graph, by the two keys that are also
\* keys of the node properties; Missing: the mapping has no such key.  None,
\* the empty mapping and a mapping with other keys only (file_path, language)
\* are NoMetadata.
NoMetadata == [id |-> Missing, source_id |-> Missing]

NoAst ==
    [pc |-> "idle", graph |-> NoGraph, source_id |-> "none",
     metadata |-> NoMetadata, written |-> {},
     nodes |-> [k \in NodeKeys |-> 0],
     node_type |-> [k \in NodeKeys |-> "none"],
     edges |-> [k \in EdgeKeys |-> 0],
     before_nodes |-> [k \in NodeKeys |-> 0],
     before_types |-> [k \in NodeKeys |-> "none"],
     before_edges |-> [k \in EdgeKeys |-> 0],
     repeat |-> FALSE, queries |-> 0, total_nodes |-> 0, total_edges |-> 0,
     raised |-> "none", calls |-> 0]

AstInit == ast = NoAst

\* intent ids given to the intent operations
IntentIds == {"i1", "i2"}

\* 1.0 on the scale that counts a confidence in halves
ConfidenceOne == 2

\* the call record of an intent operation that has not been called
\*   op           "none", "link", "get", "remove", "search"
\*   intent_id, nodes, source_id, confidence, metadata, vector, ast_node_id
\*                the arguments of the call
\*   filter       the second argument of get_ast_nodes_by_intent
\*   rows         the list get_ast_nodes_by_intent returned
\*   count        mappings_created of a link, the count of a remove
\*   vector_stored   of a link
\*   matched      the intents search_ast_by_intent_vector returned
\*   repeat       a link that repeats the arguments of the call before it,
\*                which was a link that returned
\*   raised       the exception raised, "none" when the call returned
NoIntentCall ==
    [op |-> "none", intent_id |-> "", nodes |-> <<>>, source_id |-> "",
     confidence |-> 0, metadata |-> "None", vector |-> "none",
     ast_node_id |-> "None", filter |-> [kind |-> "none", str |-> "", num |-> 0],
     rows |-> <<>>, count |-> 0, vector_stored |-> FALSE, matched |-> {},
     repeat |-> FALSE, raised |-> "none"]

\* no intent operation has been called, the tables are empty
\*   rows          table intent_ast_map
\*   vectors       table intent_vectors: per intent its vector, "none" when
\*                 it has no row
\*   vector_table  table intent_vectors exists
\*   now           CURRENT_TIMESTAMP of the last transaction
\*   next_id       the next value of the id column
\*   call          the last call and what it returned
NoIntent ==
    [rows |-> {}, vectors |-> [i \in IntentIds |-> "none"],
     vector_table |-> FALSE, now |-> 0, next_id |-> 1, call |-> NoIntentCall]

IntentInit == intent = NoIntent

\* SearchType (search/models.py), and the types that have a search of their own
SearchTypes == {"graph", "vector", "text", "unified"}

Branches == {"graph", "vector", "text"}

\* no search is in progress
\*   pc          "idle", "gathering" (the branch searches run), "done"
\*   query       the SearchQuery of the call
\*   pending     the branch searches that have not finished
\*   hits        per branch the list its search returned
\*   finished    the branch searches that returned or raised
\*   failed      the branch searches that raised
\*   raised      the exception search raised, "none" when it returned
\*   candidates  the list handed to _rank_results
\*   returned    the list search returned
NoSearchQuery ==
    [search_types |-> {}, vector |-> FALSE, weights |-> <<>>, max_results |-> 1]

NoSearch ==
    [pc |-> "idle", query |-> NoSearchQuery, pending |-> {},
     hits |-> [t \in Branches |-> <<>>], finished |-> {}, failed |-> {},
     candidates |-> <<>>, returned |-> <<>>, raised |-> "none"]

SearchInit == search = NoSearch

\* no ConnectionConfig has been built
\*   built       construction accepted the arguments
\*   neo4j_uri, neo4j_auth, postgres_dsn   the fields, as texts
\*   password    the password the DSN carries, <<>> when it carries none
\*   masked      what mask_sensitive_data returned: the texts among its values
NoConfig ==
    [built |-> FALSE, neo4j_uri |-> <<>>, neo4j_auth |-> <<<<>>, <<>>>>,
     postgres_dsn |-> <<>>, password |-> <<>>, raised |-> "none",
     masked |-> [k \in {} |-> <<>>], calls |-> 0]

ConfigInit == config = NoConfig

\* ------------------------------------------------------------- the world
World ==
    [ctx |-> ctx, nh |-> neo4j_handles, ph |-> postgres_handles,
     ns |-> neo4j_store, ps |-> postgres_store, calls |-> calls,
     faulted |-> faulted, exc |-> exc, fault_count |-> fault_count]

Install(w) ==
    /\ ctx' = w.ctx
    /\ neo4j_handles' = w.nh
    /\ postgres_handles' = w.ph
    /\ neo4j_store' = w.ns
    /\ postgres_store' = w.ps
    /\ calls' = w.calls
    /\ faulted' = w.faulted
    /\ exc' = w.exc
    /\ fault_count' = w.fault_count
    /\ w.fault_count <= MaxFaults
    /\ UNCHANGED <<supervisor_vars, facade_vars, service_vars, config>>

\* result of a piece of sequential code: the new world, the exception it
\* raised ("none" when it returned) and its return value
Ret(w, e) == [w |-> w, exc |-> e, val |-> None]
RetVal(w, e, v) == [w |-> w, exc |-> e, val |-> v]

Called(w, c, m) == [w EXCEPT !.calls[c][m] = @ + 1]
Raised(w, c, m) ==
    [w EXCEPT !.faulted[c] = @ \cup {m}, !.fault_count = @ + 1]
SetState(w, c, s) == [w EXCEPT !.ctx[c].state = s]

\* ------------------------------------------------- graph adapter (neo4j.py)
\* Every operator takes the context c on whose behalf the engine calls, to
\* count the call; tx is the handle argument (None when the engine has none).

\* Neo4jConnection.begin_transaction: opens a session and a transaction on it
\* and returns the pair; any failure raises Neo4jConnectionError.
Neo4jBeginTransaction(w, c, f) ==
    LET w1 == Called(w, c, "n_begin") IN
    IF f = "ok"
    THEN RetVal([w1 EXCEPT !.nh = Append(@, [status |-> "open", writes |-> {}])],
                "none", Len(w1.nh) + 1)
    ELSE Ret(Raised(w1, c, "n_begin"), "Neo4jConnectionError")

\* Neo4jConnection.execute_query: with a transaction the statement runs on
\* it; without one it runs in a session of its own, which commits it at once.
\* (A statement that raises changes nothing and reaches the body as an
\* exception: that is the action BodyRaise.)
Neo4jExecuteQuery(w, c, tx) ==
    LET w1 == Called(w, c, "n_execute") IN
    IF tx # None
    THEN Ret([w1 EXCEPT !.nh[tx].writes = @ \cup {c}], "none")
    ELSE Ret([w1 EXCEPT !.ns = @ \cup {c}], "none")

\* Neo4jConnection.commit_transaction: tx.commit() then session.close()
Neo4jCommitTransaction(w, c, tx, f) ==
    LET w1 == Called(w, c, "n_commit")
        done == [w1 EXCEPT !.nh[tx].status = "committed",
                           !.ns = @ \cup w1.nh[tx].writes]
    IN  IF tx = None THEN Ret(w1, "none")
        ELSE IF f = "ok" THEN Ret(done, "none")
        ELSE IF f = "fail" THEN Ret(Raised(w1, c, "n_commit"), "Neo4jConnectionError")
        ELSE Ret(Raised(done, c, "n_commit"), "Neo4jConnectionError")

\* Neo4jConnection.rollback_transaction: tx.rollback() then session.close()
Neo4jRollbackTransaction(w, c, tx, f) ==
    LET w1 == Called(w, c, "n_rollback")
        done == [w1 EXCEPT !.nh[tx].status = "rolled_back"]
    IN  IF tx = None THEN Ret(w1, "none")
        ELSE IF f = "ok" THEN Ret(done, "none")
        ELSE IF f = "fail" THEN Ret(Raised(w1, c, "n_rollback"), "Neo4jConnectionError")
        ELSE Ret(Raised(done, c, "n_rollback"), "Neo4jConnectionError")

\* Neo4jConnection.prepare_transaction: logs a warning, nothing else
Neo4jPrepareTransaction(w, c, tx) == Ret(Called(w, c, "n_prepare"), "none")

\* Neo4jConnection.commit_prepared: delegates to commit_transaction
Neo4jCommitPrepared(w, c, tx, f) ==
    LET r == Neo4jCommitTransaction(Called(w, c, "n_commit_prepared"), c, tx, f) IN
    IF r.exc = "none" THEN r
    ELSE Ret([r.w EXCEPT !.faulted[c] = @ \cup {"n_commit_prepared"}], r.exc)

\* ------------------------------------------- relational adapter (postgres.py)

\* PostgresConnection.begin_transaction: takes a connection from the pool and
\* switches autocommit off
PostgresBeginTransaction(w, c, f) ==
    LET w1 == Called(w, c, "p_begin") IN
    IF f = "ok"
    THEN RetVal([w1 EXCEPT !.ph = Append(@, [status |-> "open", writes |-> {},
                                             prepared_xid |-> FALSE])],
                "none", Len(w1.ph) + 1)
    ELSE Ret(Raised(w1, c, "p_begin"), "PostgresConnectionError")

\* PostgresConnection.execute: on the given connection, or through
\* execute_query (a pooled connection of its own, committed at once)
PostgresExecute(w, c, tx) ==
    LET w1 == Called(w, c, "p_execute") IN
    IF tx # None
    THEN Ret([w1 EXCEPT !.ph[tx].writes = @ \cup {c}], "none")
    ELSE Ret([w1 EXCEPT !.ps = @ \cup {c}], "none")

\* PostgresConnection.commit_transaction: transaction.commit() then putconn.
\* A session whose transaction was prepared has nothing left to commit.
PostgresCommitTransaction(w, c, tx, f) ==
    LET w1 == Called(w, c, "p_commit")
        done == IF w1.ph[tx].status = "open"
                THEN [w1 EXCEPT !.ph[tx].status = "committed",
                                !.ps = @ \cup w1.ph[tx].writes]
                ELSE w1
    IN  IF tx = None THEN Ret(w1, "none")
        ELSE IF f = "ok" THEN Ret(done, "none")
        ELSE IF f = "fail" THEN Ret(Raised(w1, c, "p_commit"), "PostgresConnectionError")
        ELSE Ret(Raised(done, c, "p_commit"), "PostgresConnectionError")

\* PostgresConnection.rollback_transaction: transaction.rollback() then
\* putconn.  It is the in-session rollback whatever the handle's state: a
\* transaction that was prepared is no longer the session's and stays prepared.
PostgresRollbackTransaction(w, c, tx, f) ==
    LET w1 == Called(w, c, "p_rollback")
        done == IF w1.ph[tx].status = "open"
                THEN [w1 EXCEPT !.ph[tx].status = "rolled_back"]
                ELSE w1
    IN  IF tx = None THEN Ret(w1, "none")
        ELSE IF f = "ok" THEN Ret(done, "none")
        ELSE IF f = "fail" THEN Ret(Raised(w1, c, "p_rollback"), "PostgresConnectionError")
        ELSE Ret(Raised(done, c, "p_rollback"), "PostgresConnectionError")

\* PostgresConnection.prepare_transaction: PREPARE TRANSACTION '<xid>' and the
\* xid is stored on the handle
PostgresPrepareTransaction(w, c, tx, f) ==
    LET w1 == Called(w, c, "p_prepare") IN
    IF tx = None THEN Ret(w1, "none")
    ELSE IF f = "ok"
    THEN Ret([w1 EXCEPT !.ph[tx].status = "prepared",
                        !.ph[tx].prepared_xid = TRUE], "none")
    ELSE Ret(Raised(w1, c, "p_prepare"), "PostgresConnectionError")

\* PostgresConnection.commit_prepared: COMMIT PREPARED '<xid>' on a fresh
\* connection, then putconn of the handle; nothing without a stored xid
PostgresCommitPrepared(w, c, tx, f) ==
    LET w1 == Called(w, c, "p_commit_prepared")
        done == [w1 EXCEPT !.ph[tx].status = "committed",
                           !.ps = @ \cup w1.ph[tx].writes]
    IN  IF tx = None THEN Ret(w1, "none")
        ELSE IF ~w1.ph[tx].prepared_xid THEN Ret(w1, "none")
        ELSE IF f = "ok" THEN Ret(done, "none")
        ELSE IF f = "fail"
        THEN Ret(Raised(w1, c, "p_commit_prepared"), "PostgresConnectionError")
        ELSE Ret(Raised(done, c, "p_commit_prepared"), "PostgresConnectionError")

\* ------------------------------------- TransactionContext (transactions/manager.py)

\* TransactionContext._log_operation with enable_logging = False (the
\* constructor's default): the entry is appended to the context's own log.
\* details: {"nested"} for a nested begin, the failed sides for
\* partial_commit, empty otherwise.
LogOperation(w, c, action, details) ==
    [w EXCEPT !.ctx[c].operations =
                  Append(@, [action |-> action, details |-> details])]

\* Begin with the nesting test lost: a nested context opens handles too
Begin_AlwaysOpens(w, c, fn, fp) ==
    IF w.ctx[c].state # "pending" THEN Ret(w, "TransactionError")
    ELSE LET w1 == SetState(w, c, "active")
             r1 == Neo4jBeginTransaction(w1, c, fn)
         IN  IF r1.exc # "none" THEN Ret(r1.w, r1.exc)
             ELSE LET w2 == [r1.w EXCEPT !.ctx[c].neo4j_tx = r1.val]
                      r2 == PostgresBeginTransaction(w2, c, fp)
                  IN  IF r2.exc # "none" THEN Ret(r2.w, r2.exc)
                      ELSE Ret(LogOperation(
                                   [r2.w EXCEPT !.ctx[c].postgres_tx = r2.val],
                                   c, "begin", {}), "none")

\* TransactionContext.begin
Begin(w, c, fn, fp) ==
    IF w.ctx[c].state # "pending" THEN Ret(w, "TransactionError")
    ELSE LET w1 == SetState(w, c, "active") IN
         IF w1.ctx[c].is_nested
         THEN Ret(LogOperation(w1, c, "begin", {"nested"}), "none")
         ELSE LET r1 == Neo4jBeginTransaction(w1, c, fn) IN
              IF r1.exc # "none" THEN Ret(r1.w, r1.exc)
              ELSE LET w2 == [r1.w EXCEPT !.ctx[c].neo4j_tx = r1.val]
                       r2 == PostgresBeginTransaction(w2, c, fp)
                   IN  IF r2.exc # "none" THEN Ret(r2.w, r2.exc)
                       ELSE Ret(LogOperation(
                                    [r2.w EXCEPT !.ctx[c].postgres_tx = r2.val],
                                    c, "begin", {}), "none")

\* rollback that gives up at the first adapter that raises
Rollback_StopAtFirstError(w, c, rn, rp) ==
    IF w.ctx[c].state \notin {"active", "preparing", "prepared"}
    THEN Ret(w, "TransactionError")
    ELSE
    LET w1 == SetState(w, c, "rolling_back")
        me == w1.ctx[c]
        r1 == IF ~me.is_nested /\ me.neo4j_tx # None
              THEN Neo4jRollbackTransaction(w1, c, me.neo4j_tx, rn)
              ELSE Ret(w1, "none")
        r2 == IF ~me.is_nested /\ me.postgres_tx # None /\ r1.exc = "none"
              THEN PostgresRollbackTransaction(r1.w, c, me.postgres_tx, rp)
              ELSE Ret(r1.w, "none")
        errors == (IF r1.exc # "none" THEN {"neo4j"} ELSE {})
                  \cup (IF r2.exc # "none" THEN {"postgres"} ELSE {})
    IN  IF errors # {}
        THEN Ret([LogOperation(SetState(r2.w, c, "failed"), c,
                               "rollback_failed", errors)
                    EXCEPT !.exc[c].rollback = "TransactionRollbackError"],
                 "TransactionRollbackError")
        ELSE Ret([LogOperation(SetState(r2.w, c, "rolled_back"), c,
                               "rollback", {})
                    EXCEPT !.exc[c].rollback = "ok"],
                 "none")

\* rollback without its state guard
Rollback_NoGuard(w, c, rn, rp) ==
    LET w1 == SetState(w, c, "rolling_back")
        me == w1.ctx[c]
        r1 == IF ~me.is_nested /\ me.neo4j_tx # None
              THEN Neo4jRollbackTransaction(w1, c, me.neo4j_tx, rn)
              ELSE Ret(w1, "none")
        r2 == IF ~me.is_nested /\ me.postgres_tx # None
              THEN PostgresRollbackTransaction(r1.w, c, me.postgres_tx, rp)
              ELSE Ret(r1.w, "none")
        errors == (IF r1.exc # "none" THEN {"neo4j"} ELSE {})
                  \cup (IF r2.exc # "none" THEN {"postgres"} ELSE {})
    IN  IF errors # {}
        THEN Ret([LogOperation(SetState(r2.w, c, "failed"), c,
                               "rollback_failed", errors)
                    EXCEPT !.exc[c].rollback = "TransactionRollbackError"],
                 "TransactionRollbackError")
        ELSE Ret([LogOperation(SetState(r2.w, c, "rolled_back"), c,
                               "rollback", {})
                    EXCEPT !.exc[c].rollback = "ok"],
                 "none")

\* TransactionContext.rollback
Rollback(w, c, rn, rp) ==
    IF w.ctx[c].state \notin {"active", "preparing", "prepared"}
    THEN Ret(w, "TransactionError")
    ELSE
    LET w1 == SetState(w, c, "rolling_back")
        me == w1.ctx[c]
        r1 == IF ~me.is_nested /\ me.neo4j_tx # None
              THEN Neo4jRollbackTransaction(w1, c, me.neo4j_tx, rn)
              ELSE Ret(w1, "none")
        r2 == IF ~me.is_nested /\ me.postgres_tx # None
              THEN PostgresRollbackTransaction(r1.w, c, me.postgres_tx, rp)
              ELSE Ret(r1.w, "none")
        errors == (IF r1.exc # "none" THEN {"neo4j"} ELSE {})
                  \cup (IF r2.exc # "none" THEN {"postgres"} ELSE {})
    IN  IF errors # {}
        THEN Ret([LogOperation(SetState(r2.w, c, "failed"), c,
                               "rollback_failed", errors)
                    EXCEPT !.exc[c].rollback = "TransactionRollbackError"],
                 "TransactionRollbackError")
        ELSE Ret([LogOperation(SetState(r2.w, c, "rolled_back"), c,
                               "rollback", {})
                    EXCEPT !.exc[c].rollback = "ok"],
                 "none")

\* TransactionContext._single_phase_commit
SinglePhaseCommit(w, c, cn, cp) ==
    IF w.ctx[c].is_nested THEN Ret(w, "none")
    ELSE LET w1 == SetState(w, c, "committing")
             r1 == Neo4jCommitTransaction(w1, c, w1.ctx[c].neo4j_tx, cn)
         IN  IF r1.exc # "none" THEN r1
             ELSE PostgresCommitTransaction(r1.w, c, w1.ctx[c].postgres_tx, cp)

\* _two_phase_commit with one of three slips:
\*   "no_rollback"  a failed prepare raises without rolling back
\*   "unlabelled"   a failed commit phase raises without the partial_commit entry
\*   "stop_early"   the commit phase stops at the first adapter that raises
TwoPhaseCommitSlip(w, c, prep, cn, cp, rn, rp, slip) ==
    LET w1 == SetState(w, c, "preparing")
        me == w1.ctx[c]
        p1 == Neo4jPrepareTransaction(w1, c, me.neo4j_tx)
        p2 == PostgresPrepareTransaction(p1.w, c, me.postgres_tx, prep)
        prepare_errors == (IF p1.exc # "none" THEN {"neo4j"} ELSE {})
                          \cup (IF p2.exc # "none" THEN {"postgres"} ELSE {})
        rb == IF slip = "no_rollback" THEN Ret(p2.w, "none")
              ELSE Rollback(p2.w, c, rn, rp)
        w2 == SetState(SetState(p2.w, c, "prepared"), c, "committing")
        c1 == Neo4jCommitPrepared(w2, c, me.neo4j_tx, cn)
        c2 == IF slip = "stop_early" /\ c1.exc # "none" THEN Ret(c1.w, "none")
              ELSE PostgresCommitPrepared(c1.w, c, me.postgres_tx, cp)
        commit_errors == (IF c1.exc # "none" THEN {"neo4j"} ELSE {})
                         \cup (IF c2.exc # "none" THEN {"postgres"} ELSE {})
    IN  IF prepare_errors # {}
        THEN IF rb.exc # "none" THEN rb ELSE Ret(rb.w, "TransactionError")
        ELSE IF commit_errors # {}
        THEN Ret(IF slip = "unlabelled" THEN c2.w
                 ELSE LogOperation(c2.w, c, "partial_commit", commit_errors),
                 "TransactionError")
        ELSE Ret(c2.w, "none")

TwoPhaseCommit_NoRollback(w, c, prep, cn, cp, rn, rp) ==
    TwoPhaseCommitSlip(w, c, prep, cn, cp, rn, rp, "no_rollback")

TwoPhaseCommit_Unlabelled(w, c, prep, cn, cp, rn, rp) ==
    TwoPhaseCommitSlip(w, c, prep, cn, cp, rn, rp, "unlabelled")

TwoPhaseCommit_StopEarly(w, c, prep, cn, cp, rn, rp) ==
    TwoPhaseCommitSlip(w, c, prep, cn, cp, rn, rp, "stop_early")

\* TransactionContext._two_phase_commit
TwoPhaseCommit(w, c, prep, cn, cp, rn, rp) ==
    LET w1 == SetState(w, c, "preparing")
        me == w1.ctx[c]
        p1 == Neo4jPrepareTransaction(w1, c, me.neo4j_tx)
        p2 == PostgresPrepareTransaction(p1.w, c, me.postgres_tx, prep)
        prepare_errors == (IF p1.exc # "none" THEN {"neo4j"} ELSE {})
                          \cup (IF p2.exc # "none" THEN {"postgres"} ELSE {})
        rb == Rollback(p2.w, c, rn, rp)
        w2 == SetState(SetState(p2.w, c, "prepared"), c, "committing")
        c1 == Neo4jCommitPrepared(w2, c, me.neo4j_tx, cn)
        c2 == PostgresCommitPrepared(c1.w, c, me.postgres_tx, cp)
        commit_errors == (IF c1.exc # "none" THEN {"neo4j"} ELSE {})
                         \cup (IF c2.exc # "none" THEN {"postgres"} ELSE {})
    IN  IF prepare_errors # {}
        THEN IF rb.exc # "none" THEN rb ELSE Ret(rb.w, "TransactionError")
        ELSE IF commit_errors # {}
        THEN Ret(LogOperation(c2.w, c, "partial_commit", commit_errors),
                 "TransactionError")
        ELSE Ret(c2.w, "none")

\* TransactionContext.commit
Commit(w, c, prep, cn, cp, rn, rp) ==
    IF w.ctx[c].state # "active" THEN Ret(w, "TransactionError")
    ELSE
    LET r == IF enable_two_phase_commit /\ ~w.ctx[c].is_nested
             THEN TwoPhaseCommit(w, c, prep, cn, cp, rn, rp)
             ELSE SinglePhaseCommit(w, c, cn, cp)
    IN  IF r.exc = "none"
        THEN Ret([LogOperation(SetState(r.w, c, "committed"), c, "commit", {})
                    EXCEPT !.exc[c].commit = "ok"],
                 "none")
        ELSE Ret([LogOperation(SetState(r.w, c, "failed"), c, "commit_failed", {})
                    EXCEPT !.exc[c].commit = "TransactionError"],
                 "TransactionError")

\* TransactionContext.neo4j_execute
Neo4jExecute(w, c) ==
    IF w.ctx[c].state # "active" THEN Ret(w, "TransactionError")
    ELSE Neo4jExecuteQuery(LogOperation(w, c, "neo4j_execute", {}), c,
                           w.ctx[c].neo4j_tx)

\* TransactionContext.postgres_execute
PostgresExecuteCtx(w, c) ==
    IF w.ctx[c].state # "active" THEN Ret(w, "TransactionError")
    ELSE PostgresExecute(LogOperation(w, c, "postgres_execute", {}), c,
                         w.ctx[c].postgres_tx)

\* -------------------------------------------- TransactionManager.transaction

\* TransactionManager.default_timeout: GraphPostgresManager.initialize builds
\* the TransactionManager without it, so it keeps the constructor's default
\* None (FALSE: no timeout)
default_timeout == FALSE

\* TransactionContext.__init__ as called by TransactionManager.transaction
\* timeout: whether "timeout or self.default_timeout" is a number of seconds
\* (TRUE) or None (FALSE)
NewContext(nested, timeout) ==
    [state |-> "pending", is_nested |-> nested, timeout |-> timeout,
     neo4j_tx |-> None, postgres_tx |-> None, operations |-> <<>>]

\* no TransactionContext object: not created yet, or no longer referenced
AbsentContext ==
    [state |-> "absent", is_nested |-> FALSE, timeout |-> FALSE,
     neo4j_tx |-> None, postgres_tx |-> None, operations |-> <<>>]

NoCalls == [m \in Methods |-> 0]
NoExc ==
    [commit |-> "none", rollback |-> "none", scope |-> "none", body |-> "none",
     rejected |-> <<>>]
ClosedHandle == [status |-> "closed", writes |-> {}]
ClosedConnection == [status |-> "closed", writes |-> {}, prepared_xid |-> FALSE]

\* The model follows the contexts whose scope is open and the one whose scope
\* exited last.  When the scope of c exits, the context d that had exited
\* before it is dropped together with its handles (what it wrote durably
\* stays in the stores).
Exited(w, c) ==
    LET d == last_exited IN
    IF d = None \/ d = c THEN w
    ELSE [w EXCEPT
            !.ctx[d] = AbsentContext,
            !.calls[d] = NoCalls,
            !.faulted[d] = {},
            !.exc[d] = NoExc,
            !.nh = [h \in DOMAIN w.nh |->
                       IF h = w.ctx[d].neo4j_tx THEN ClosedHandle ELSE w.nh[h]],
            !.ph = [h \in DOMAIN w.ph |->
                       IF h = w.ctx[d].postgres_tx THEN ClosedConnection ELSE w.ph[h]]]

\* a finally clause that leaves the registry as it is
Finally_Keep(registry, c) == registry

\* the "finally" clause of TransactionManager.transaction
Finally(registry, c) == registry \ {c}

\* an except clause that re-raises without rolling back
ExceptHandler_NoRollback(w, c, original, rn, rp) == Ret(w, original)

\* the "except Exception" clause of TransactionManager.transaction: the
\* exception original reached the scope of context c
ExceptHandler(w, c, original, rn, rp) ==
    IF w.ctx[c].state \in {"active", "preparing", "prepared"}
    THEN LET r == Rollback(w, c, rn, rp) IN
         IF r.exc # "none" THEN Ret(r.w, "TransactionRollbackError")
         ELSE Ret(r.w, original)
    ELSE Ret(w, original)

\* the innermost scope task t is inside
Top(t) == stack[t][Len(stack[t])]
Pop(q) == SubSeq(q, 1, Len(q) - 1)

\* Outcomes of the driver calls one engine operation on context c can make.
\* A call that the code does not reach gets the outcome "ok".
AllOk == [fn |-> "ok", fp |-> "ok", prep |-> "ok", cn |-> "ok", cp |-> "ok",
          rn |-> "ok", rp |-> "ok"]

\* driver calls of TransactionContext.rollback
RollbackInputs(c) ==
    IF ctx[c].state \notin {"active", "preparing", "prepared"} \/ ctx[c].is_nested
    THEN {AllOk}
    ELSE {[AllOk EXCEPT !.rn = a, !.rp = b] : a \in Faults, b \in Faults}

\* driver calls of TransactionContext.commit
CommitInputs(c) ==
    IF ctx[c].state # "active" \/ ctx[c].is_nested THEN {AllOk}
    ELSE IF enable_two_phase_commit
    THEN {[AllOk EXCEPT !.cn = a, !.cp = b] : a \in Faults, b \in Faults}
         \cup {[AllOk EXCEPT !.prep = "fail", !.rn = a, !.rp = b] :
                   a \in Faults, b \in Faults}
    ELSE {[AllOk EXCEPT !.cp = b] : b \in Faults}
         \cup {[AllOk EXCEPT !.cn = a] : a \in Faults}

\* driver calls of TransactionContext.begin and of the rollback after a
\* failed begin
BeginInputs ==
    IF active_transactions # {} THEN {AllOk}
    ELSE {AllOk, [AllOk EXCEPT !.fn = "fail"]}
         \cup {[AllOk EXCEPT !.fp = "fail", !.rn = a] : a \in Faults}

\* Tasks have no state of their own besides the scopes they are inside, so
\* among the tasks that are inside no scope the first one opens the next.
MayEnter(t) ==
    stack[t] = <<>> => \A u \in Tasks : u < t => stack[u] # <<>>

\* async with manager.transaction(): the part up to the yield.  When begin
\* raises, the except and finally clauses run at once and the body never does.
\* timeout: whether the caller passed a timeout.
Enter(t) ==
    \E i \in BeginInputs, timeout \in BOOLEAN :
        /\ next_id < MaxCtx
        /\ MayEnter(t)
        /\ LET c == next_id + 1
               w0 == [World EXCEPT
                        !.ctx[c] = NewContext(active_transactions # {},
                                              timeout \/ default_timeout)]
               r == Begin(w0, c, i.fn, i.fp)
               h == ExceptHandler(r.w, c, r.exc, i.rn, i.rp)
           IN  IF r.exc = "none"
               THEN /\ Install(r.w)
                    /\ active_transactions' = active_transactions \cup {c}
                    /\ stack' = [stack EXCEPT ![t] = Append(@, c)]
                    /\ UNCHANGED last_exited
               ELSE /\ Install(Exited([h.w EXCEPT !.exc[c].scope = h.exc], c))
                    /\ active_transactions' =
                           Finally(active_transactions \cup {c}, c)
                    /\ last_exited' = c
                    /\ UNCHANGED stack
        /\ next_id' = next_id + 1
        /\ UNCHANGED <<enable_two_phase_commit, query_count>>

\* the body calls ctx.neo4j_execute
BodyNeo4jExecute(t) ==
    /\ stack[t] # <<>>
    /\ query_count < MaxExec
    /\ query_count' = query_count + 1
    /\ Install(Neo4jExecute(World, Top(t)).w)
    /\ UNCHANGED <<enable_two_phase_commit, active_transactions, next_id, stack,
                   last_exited>>

\* the body calls ctx.postgres_execute
BodyPostgresExecute(t) ==
    /\ stack[t] # <<>>
    /\ query_count < MaxExec
    /\ query_count' = query_count + 1
    /\ Install(PostgresExecuteCtx(World, Top(t)).w)
    /\ UNCHANGED <<enable_two_phase_commit, active_transactions, next_id, stack,
                   last_exited>>

\* the body calls ctx.commit
BodyCommit(t) ==
    /\ stack[t] # <<>>
    /\ \E i \in CommitInputs(Top(t)) :
        /\ LET r == Commit(World, Top(t), i.prep, i.cn, i.cp, i.rn, i.rp) IN
               Install(r.w)
        /\ UNCHANGED <<enable_two_phase_commit, active_transactions, next_id, stack,
                       query_count, last_exited>>

\* the body calls ctx.rollback
BodyRollback(t) ==
    /\ stack[t] # <<>>
    /\ \E i \in RollbackInputs(Top(t)) :
        /\ LET r == Rollback(World, Top(t), i.rn, i.rp) IN
               Install(r.w)
        /\ UNCHANGED <<enable_two_phase_commit, active_transactions, next_id, stack,
                       query_count, last_exited>>

\* the body returns: the part of transaction() after the yield
BodyReturn(t) ==
    /\ stack[t] # <<>>
    /\ \E i \in CommitInputs(Top(t)) :
        /\ LET c == Top(t)
               r == IF ctx[c].state = "active"
                    THEN Commit(World, c, i.prep, i.cn, i.cp, i.rn, i.rp)
                    ELSE Ret(World, "none")
               h == IF r.exc # "none"
                    THEN ExceptHandler(r.w, c, r.exc, i.rn, i.rp)
                    ELSE r
           IN  /\ Install(Exited([h.w EXCEPT
                                       !.exc[c].body = "returned",
                                       !.exc[c].scope =
                                           IF h.exc = "none" THEN "ok" ELSE h.exc],
                                  c))
               /\ active_transactions' = Finally(active_transactions, c)
               /\ last_exited' = c
        /\ stack' = [stack EXCEPT ![t] = Pop(@)]
        /\ UNCHANGED <<enable_two_phase_commit, next_id, query_count>>

\* the body raises an exception of its own (or lets one pass that a call
\* raised): the except clause of transaction() runs
BodyRaise(t) ==
    /\ stack[t] # <<>>
    /\ \E i \in RollbackInputs(Top(t)) :
        /\ LET c == Top(t)
               h == ExceptHandler(World, c, "BodyError", i.rn, i.rp)
           IN  /\ Install(Exited([h.w EXCEPT
                                       !.exc[c].body =
                                           IF ctx[c].state = "active"
                                           THEN "raised_active"
                                           ELSE "raised_inactive",
                                       !.exc[c].scope = h.exc],
                                  c))
               /\ active_transactions' = Finally(active_transactions, c)
               /\ last_exited' = c
        /\ stack' = [stack EXCEPT ![t] = Pop(@)]
        /\ UNCHANGED <<enable_two_phase_commit, next_id, query_count>>

\* a timeout handler that rolls back and lets the cancellation through
\* instead of the TimeoutError
TimeoutHandler_Cancelled(w, c, rn, rp) ==
    LET r == Rollback(w, c, rn, rp) IN
    IF r.exc # "none" THEN r ELSE Ret(r.w, "CancelledError")

\* the "except TimeoutError" clause around the yield: roll back, then
\* re-raise the TimeoutError, unless the rollback itself raises
TimeoutHandler(w, c, rn, rp) ==
    LET r == Rollback(w, c, rn, rp) IN
    IF r.exc # "none" THEN r ELSE Ret(r.w, "TimeoutError")

\* the timer of asyncio.timeout(ctx.timeout) expires while the body is
\* suspended between two engine calls: the body is cancelled, the
\* "except TimeoutError" clause runs and then the "except Exception" clause
BodyTimeout(t) ==
    /\ stack[t] # <<>>
    /\ ctx[Top(t)].timeout
    /\ \E i \in RollbackInputs(Top(t)) :
        /\ LET c == Top(t)
               r == TimeoutHandler(World, c, i.rn, i.rp)
               h == ExceptHandler(r.w, c, r.exc, i.rn, i.rp)
           IN  /\ Install(Exited([h.w EXCEPT
                                       !.exc[c].body =
                                           IF ctx[c].state = "active"
                                           THEN "timed_out_active"
                                           ELSE "timed_out_inactive",
                                       !.exc[c].scope = h.exc],
                                  c))
               /\ active_transactions' = Finally(active_transactions, c)
               /\ last_exited' = c
        /\ stack' = [stack EXCEPT ![t] = Pop(@)]
        /\ UNCHANGED <<enable_two_phase_commit, next_id, query_count>>

\* --------------------------------------------------------------- behaviours
\* TransactionManager(neo4j_connection, postgres_connection,
\* enable_two_phase_commit = two_phase)
EngineInit(two_phase) ==
    /\ enable_two_phase_commit = two_phase
    /\ active_transactions = {}
    /\ next_id = 0
    /\ stack = [t \in Tasks |-> <<>>]
    /\ ctx = [c \in CtxIds |-> AbsentContext]
    /\ neo4j_handles = <<>>
    /\ postgres_handles = <<>>
    /\ neo4j_store = {}
    /\ postgres_store = {}
    /\ calls = [c \in CtxIds |-> NoCalls]
    /\ faulted = [c \in CtxIds |-> {}]
    /\ exc = [c \in CtxIds |-> NoExc]
    /\ fault_count = 0
    /\ query_count = 0
    /\ last_exited = None

\* the engine on two adapters built from one configuration
Init ==
    /\ \E two_phase \in BOOLEAN : EngineInit(two_phase)
    /\ SupervisorInit(MaxRetry, MaxDelay, TRUE)
    /\ FacadeInit
    /\ QueryInit /\ BatchInit /\ AstInit /\ IntentInit /\ SearchInit
    /\ ConfigInit

Next ==
    \E t \in Tasks :
        \/ Enter(t)
        \/ BodyNeo4jExecute(t)
        \/ BodyPostgresExecute(t)
        \/ BodyCommit(t)
        \/ BodyRollback(t)
        \/ BodyReturn(t)
        \/ BodyRaise(t)
        \/ BodyTimeout(t)

Spec == Init /\ [][Next]_vars

\* ------------------------------------------------------------ vocabulary
HasLog(c, a) ==
    \E i \in DOMAIN ctx[c].operations : ctx[c].operations[i].action = a

Nested(c) == ctx[c].state # "absent" /\ ctx[c].is_nested
TopLevel(c) == ctx[c].state # "absent" /\ ~ctx[c].is_nested
ScopeExited(c) == exc[c].scope # "none"

\* the body of c raised while c was Active
RaisedWhileActive(c) == exc[c].body = "raised_active"

RollbackRaised(c) == faulted[c] \cap {"n_rollback", "p_rollback"} # {}

NoCommitCalls(c) ==
    \A m \in {"n_commit", "p_commit", "n_commit_prepared", "p_commit_prepared"} :
        calls[c][m] = 0

NeoStatus(c) ==
    IF ctx[c].neo4j_tx = None THEN "none" ELSE neo4j_handles[ctx[c].neo4j_tx].status
PgStatus(c) ==
    IF ctx[c].postgres_tx = None THEN "none"
    ELSE postgres_handles[ctx[c].postgres_tx].status

BothCommitted(c) == NeoStatus(c) = "committed" /\ PgStatus(c) = "committed"
\* every handle the context obtained is rolled back
BothRolledBack(c) ==
    /\ NeoStatus(c) \in {"none", "rolled_back"}
    /\ PgStatus(c) \in {"none", "rolled_back"}

\* ------------------------------------------------------------------- C1
\* C1 as stated: a non-nested transaction whose body raises while Active has
\* rollback_transaction called exactly once on each adapter, no commit, ends
\* RolledBack, and the body's exception reaches the caller.
C1_AsStated ==
    \A c \in CtxIds :
        TopLevel(c) /\ RaisedWhileActive(c) =>
            /\ calls[c]["n_rollback"] = 1
            /\ calls[c]["p_rollback"] = 1
            /\ NoCommitCalls(c)
            /\ ctx[c].state = "rolled_back"
            /\ exc[c].scope = "BodyError"

\* C1 amended: a non-nested transaction whose body raises while Active has
\* rollback_transaction called exactly once on each adapter and no commit;
\* if neither rollback raises it ends RolledBack and the body's exception
\* reaches the caller, otherwise it ends Failed and the caller sees
\* TransactionRollbackError.
C1_RollbackOnBodyError ==
    \A c \in CtxIds :
        TopLevel(c) /\ RaisedWhileActive(c) =>
            /\ calls[c]["n_rollback"] = 1
            /\ calls[c]["p_rollback"] = 1
            /\ NoCommitCalls(c)
            /\ IF RollbackRaised(c)
               THEN ctx[c].state = "failed"
                    /\ exc[c].scope = "TransactionRollbackError"
               ELSE ctx[c].state = "rolled_back" /\ exc[c].scope = "BodyError"

C1_Witness ==
    \E c \in CtxIds :
        /\ TopLevel(c) /\ RaisedWhileActive(c)
        /\ ctx[c].state = "rolled_back"
        /\ exc[c].scope = "BodyError"

\* ------------------------------------------------------------------- C2
\* C2: after the scope of a context whose body raised (while the context was
\* Active, so that the engine rolled it back) has exited, neither store holds
\* anything the context wrote.
C2_NoEffectAfterRaise ==
    \A c \in CtxIds :
        RaisedWhileActive(c) => c \notin neo4j_store /\ c \notin postgres_store

\* ------------------------------------------------------------------- C3
\* C3 as stated: with 2PC, when the scope of a non-nested transaction has
\* exited, both adapters have committed, or both have been rolled back, or
\* the log has a partial_commit entry.
C3_AsStated ==
    enable_two_phase_commit =>
        \A c \in CtxIds :
            TopLevel(c) /\ ScopeExited(c) =>
                \/ BothCommitted(c)
                \/ BothRolledBack(c)
                \/ HasLog(c, "partial_commit")

\* C3 amended: with 2PC, when the scope of a non-nested transaction has
\* exited, both adapters have committed, or both have been rolled back, or
\* the log has a partial_commit entry, or a rollback raised and the log has a
\* rollback_failed entry.
C3_AtomicOrLabelled ==
    enable_two_phase_commit =>
        \A c \in CtxIds :
            TopLevel(c) /\ ScopeExited(c) =>
                \/ BothCommitted(c)
                \/ BothRolledBack(c)
                \/ HasLog(c, "partial_commit")
                \/ RollbackRaised(c) /\ HasLog(c, "rollback_failed")

C3_Witness ==
    \E c \in CtxIds :
        /\ enable_two_phase_commit
        /\ TopLevel(c) /\ ScopeExited(c)
        /\ HasLog(c, "rollback_failed")
        /\ ~BothRolledBack(c)

\* ------------------------------------------------------------------- C4
\* C4: with 2PC, when prepare_transaction fails on an adapter, no adapter is
\* committed (commit_prepared is never called), rollback_transaction is
\* called on both adapters and commit raises TransactionError.
C4_PrepareFailure ==
    \A c \in CtxIds :
        faulted[c] \cap {"n_prepare", "p_prepare"} # {} =>
            /\ NoCommitCalls(c)
            /\ calls[c]["n_rollback"] = 1
            /\ calls[c]["p_rollback"] = 1
            /\ exc[c].commit = "TransactionError"

C4_Witness ==
    \E c \in CtxIds :
        /\ "p_prepare" \in faulted[c]
        /\ calls[c]["n_rollback"] = 1
        /\ exc[c].commit = "TransactionError"

\* ------------------------------------------------------------------- C5
\* C5: with 2PC and both prepares successful, commit_prepared is called on
\* both adapters; when it fails on exactly one, commit raises
\* TransactionError and the log has a partial_commit entry that names the
\* adapter that failed.
FailedCommitPrepared(c) ==
    (IF "n_commit_prepared" \in faulted[c] THEN {"neo4j"} ELSE {})
    \cup (IF "p_commit_prepared" \in faulted[c] THEN {"postgres"} ELSE {})

C5_PartialCommitLabelled ==
    \A c \in CtxIds :
        calls[c]["p_prepare"] = 1 /\ "p_prepare" \notin faulted[c] =>
            /\ calls[c]["n_commit_prepared"] = 1
            /\ calls[c]["p_commit_prepared"] = 1
            /\ Cardinality(FailedCommitPrepared(c)) = 1 =>
                   /\ exc[c].commit = "TransactionError"
                   /\ \E i \in DOMAIN ctx[c].operations :
                          /\ ctx[c].operations[i].action = "partial_commit"
                          /\ ctx[c].operations[i].details = FailedCommitPrepared(c)

C5_Witness ==
    \E c \in CtxIds :
        /\ FailedCommitPrepared(c) = {"postgres"}
        /\ NeoStatus(c) = "committed"
        /\ HasLog(c, "partial_commit")

\* ------------------------------------------------------------------- C6
\* C6: in single-phase commit, when the relational commit fails after the
\* graph commit succeeded, the context ends Failed, its log has a
\* partial_commit entry and commit raises TransactionError.
C6_SinglePhasePartialCommit ==
    ~enable_two_phase_commit =>
        \A c \in CtxIds :
            "p_commit" \in faulted[c] /\ "n_commit" \notin faulted[c] =>
                /\ NeoStatus(c) = "committed"
                /\ ctx[c].state = "failed"
                /\ HasLog(c, "partial_commit")
                /\ exc[c].commit = "TransactionError"

\* ------------------------------------------------------------------- C7
\* C7: rollback calls the relational rollback_transaction even when the
\* graph one raised; when either raised, rollback raises
\* TransactionRollbackError and the context ends Failed; when the rollback
\* was the automatic one after a body exception, the caller sees
\* TransactionRollbackError and not the body's exception.
C7_RollbackFailure ==
    \A c \in CtxIds :
        /\ "n_rollback" \in faulted[c] /\ ctx[c].postgres_tx # None =>
               calls[c]["p_rollback"] = 1
        /\ RollbackRaised(c) =>
               /\ exc[c].rollback = "TransactionRollbackError"
               /\ ctx[c].state = "failed"
        /\ RollbackRaised(c) /\ RaisedWhileActive(c) =>
               exc[c].scope = "TransactionRollbackError"

C7_Witness ==
    \E c \in CtxIds :
        /\ "n_rollback" \in faulted[c]
        /\ calls[c]["p_rollback"] = 1
        /\ RaisedWhileActive(c)
        /\ exc[c].scope = "TransactionRollbackError"

\* ------------------------------------------------------------------- C8
\* C8: two transactions that different tasks have open at the same time each
\* hold their own pair of backend handles.
OpenedBy(c, t) == \E i \in DOMAIN stack[t] : stack[t][i] = c

C8_ConcurrentTransactionsOwnHandles ==
    \A c1 \in CtxIds, c2 \in CtxIds, t1 \in Tasks, t2 \in Tasks :
        t1 # t2 /\ OpenedBy(c1, t1) /\ OpenedBy(c2, t2) =>
            /\ ctx[c1].neo4j_tx # None /\ ctx[c1].postgres_tx # None
            /\ ctx[c2].neo4j_tx # None /\ ctx[c2].postgres_tx # None
            /\ ctx[c1].neo4j_tx # ctx[c2].neo4j_tx
            /\ ctx[c1].postgres_tx # ctx[c2].postgres_tx

\* ------------------------------------------------------------------- C9
\* C9: what a nested context wrote is durable only when it was written on
\* the handle of an outer context and that handle was committed.
C9_NestedRunsOnOuterHandles ==
    \A c \in CtxIds :
        Nested(c) =>
            /\ c \in neo4j_store =>
                   \E o \in CtxIds \ {c} :
                       /\ ctx[o].neo4j_tx # None
                       /\ neo4j_handles[ctx[o].neo4j_tx].status = "committed"
                       /\ c \in neo4j_handles[ctx[o].neo4j_tx].writes
            /\ c \in postgres_store =>
                   \E o \in CtxIds \ {c} :
                       /\ ctx[o].postgres_tx # None
                       /\ postgres_handles[ctx[o].postgres_tx].status = "committed"
                       /\ c \in postgres_handles[ctx[o].postgres_tx].writes

\* ------------------------------------------------------------------ C10
\* C10: a nested context makes no transaction-control call on either
\* adapter; a nested context that committed has its own begin and commit log
\* entries; the commit of a nested context leaves every other context in the
\* state it was in (an Active outer context stays Active); a committed
\* non-nested context has committed each adapter exactly once.
C10_State ==
    \A c \in CtxIds :
        /\ Nested(c) => \A m \in TxMethods : calls[c][m] = 0
        /\ Nested(c) /\ ctx[c].state = "committed" =>
               HasLog(c, "begin") /\ HasLog(c, "commit")
        /\ TopLevel(c) /\ ctx[c].state = "committed" =>
               /\ calls[c]["n_commit"] = 1
               /\ IF enable_two_phase_commit
                  THEN /\ calls[c]["n_commit_prepared"] = 1
                       /\ calls[c]["p_commit_prepared"] = 1
                       /\ calls[c]["p_commit"] = 0
                  ELSE /\ calls[c]["p_commit"] = 1
                       /\ calls[c]["n_commit_prepared"] = 0
                       /\ calls[c]["p_commit_prepared"] = 0
               /\ BothCommitted(c)

C10_Step ==
    \A c \in CtxIds :
        Nested(c) /\ ctx[c].state = "active" /\ ctx'[c].state = "committed" =>
            /\ \A o \in CtxIds \ {c} :
                   ctx[o].state = "active" => ctx'[o].state = "active"
            /\ neo4j_store' = neo4j_store
            /\ postgres_store' = postgres_store

\* C10: C10_State holds in every state and every step satisfies C10_Step
C10_NestedIsBookkeepingOnly == [](C10_State) /\ [][C10_Step]_vars

C10_Witness ==
    \E c \in CtxIds, o \in CtxIds :
        /\ Nested(c) /\ ctx[c].state = "committed" /\ HasLog(c, "commit")
        /\ TopLevel(o) /\ ctx[o].state = "active" /\ o \in active_transactions

\* ------------------------------------------------------------------ C11
\* the timer of c expired while its body was still running
TimedOut(c) == exc[c].body \in {"timed_out_active", "timed_out_inactive"}
TimedOutWhileActive(c) == exc[c].body = "timed_out_active"

\* C11 as stated: a transaction opened with a timeout whose body is still
\* running when the timer expires has both adapters rolled back and no commit
\* issued, ends RolledBack, and the caller sees a timeout error.
C11_AsStated ==
    \A c \in CtxIds :
        TimedOut(c) =>
            /\ calls[c]["n_rollback"] = 1
            /\ calls[c]["p_rollback"] = 1
            /\ NoCommitCalls(c)
            /\ ctx[c].state = "rolled_back"
            /\ exc[c].scope = "TimeoutError"

\* C11 amended: a non-nested transaction opened with a timeout whose timer
\* expires while the context is Active has rollback_transaction called
\* exactly once on each adapter and no commit issued; if neither rollback
\* raises it ends RolledBack and the caller sees the timeout error, otherwise
\* it ends Failed and the caller sees TransactionRollbackError.
C11_RollbackOnTimeout ==
    \A c \in CtxIds :
        TopLevel(c) /\ TimedOutWhileActive(c) =>
            /\ ctx[c].timeout
            /\ calls[c]["n_rollback"] = 1
            /\ calls[c]["p_rollback"] = 1
            /\ NoCommitCalls(c)
            /\ IF RollbackRaised(c)
               THEN ctx[c].state = "failed"
                    /\ exc[c].scope = "TransactionRollbackError"
               ELSE ctx[c].state = "rolled_back"
                    /\ BothRolledBack(c)
                    /\ exc[c].scope = "TimeoutError"

C11_Witness ==
    \E c \in CtxIds :
        /\ TopLevel(c) /\ TimedOutWhileActive(c)
        /\ HasLog(c, "neo4j_execute")
        /\ ctx[c].state = "rolled_back"
        /\ NeoStatus(c) = "rolled_back" /\ PgStatus(c) = "rolled_back"
        /\ exc[c].scope = "TimeoutError"

\* ------------------------------------------------------------------ C12
\* C12: a transaction opened through the facade without a call-site timeout
\* is bounded by timeout_seconds.  The timer of asyncio.timeout is the only
\* thing that ends a body that keeps running (BodyTimeout), and the facade
\* leaves default_timeout unset, so the claim says: every context whose scope
\* is open has a timer armed.
C12_FacadeTransactionBounded ==
    \A c \in active_transactions :
        ctx[c].state = "active" => ctx[c].timeout

\* ------------------------------------------- a context driven by its caller
\* test_transaction_state_transitions builds a TransactionContext itself and
\* calls begin, commit, rollback and the execute methods on it in any order.

\* the states in which each operation passes its guard
Accepts(op) ==
    CASE op = "begin" -> {"pending"}
      [] op = "rollback" -> {"active", "preparing", "prepared"}
      [] OTHER -> {"active"}

\* The caller called operation op of context c and got the result r.  When c
\* was in a state in which op is not accepted, the call and the exception it
\* raised are noted in exc[c].rejected (the most recent such call).
Call(c, op, r) ==
    IF ctx[c].state \in Accepts(op) THEN r.w
    ELSE [r.w EXCEPT !.exc[c].rejected = <<op, r.exc>>]

\* driver calls of TransactionContext.begin on a context built by the caller
DirectBeginInputs(c) ==
    IF ctx[c].state # "pending" \/ ctx[c].is_nested THEN {AllOk}
    ELSE {[AllOk EXCEPT !.fn = a, !.fp = b] : a \in {"ok", "fail"}, b \in {"ok", "fail"}}

\* TransactionContext(manager, transaction_id, is_nested): the caller builds
\* one context
Construct ==
    /\ next_id = 0
    /\ next_id' = next_id + 1
    /\ \E nested \in BOOLEAN :
        Install([World EXCEPT !.ctx[next_id + 1] = NewContext(nested, FALSE)])
    /\ UNCHANGED <<enable_two_phase_commit, active_transactions, stack,
                   query_count, last_exited>>

DirectBegin(c) ==
    /\ ctx[c].state # "absent"
    /\ \E i \in DirectBeginInputs(c) :
        Install(Call(c, "begin", Begin(World, c, i.fn, i.fp)))
    /\ UNCHANGED <<enable_two_phase_commit, active_transactions, next_id, stack,
                   query_count, last_exited>>

DirectCommit(c) ==
    /\ ctx[c].state # "absent"
    /\ \E i \in CommitInputs(c) :
        Install(Call(c, "commit",
                     Commit(World, c, i.prep, i.cn, i.cp, i.rn, i.rp)))
    /\ UNCHANGED <<enable_two_phase_commit, active_transactions, next_id, stack,
                   query_count, last_exited>>

DirectRollback(c) ==
    /\ ctx[c].state # "absent"
    /\ \E i \in RollbackInputs(c) :
        Install(Call(c, "rollback", Rollback(World, c, i.rn, i.rp)))
    /\ UNCHANGED <<enable_two_phase_commit, active_transactions, next_id, stack,
                   query_count, last_exited>>

DirectNeo4jExecute(c) ==
    /\ ctx[c].state # "absent"
    /\ ctx[c].state = "active" => query_count < MaxExec
    /\ query_count' = IF ctx[c].state = "active" THEN query_count + 1
                      ELSE query_count
    /\ Install(Call(c, "neo4j_execute", Neo4jExecute(World, c)))
    /\ UNCHANGED <<enable_two_phase_commit, active_transactions, next_id, stack,
                   last_exited>>

DirectPostgresExecute(c) ==
    /\ ctx[c].state # "absent"
    /\ ctx[c].state = "active" => query_count < MaxExec
    /\ query_count' = IF ctx[c].state = "active" THEN query_count + 1
                      ELSE query_count
    /\ Install(Call(c, "postgres_execute", PostgresExecuteCtx(World, c)))
    /\ UNCHANGED <<enable_two_phase_commit, active_transactions, next_id, stack,
                   last_exited>>

NextDirect ==
    \/ Construct
    \/ \E c \in CtxIds :
        \/ DirectBegin(c)
        \/ DirectCommit(c)
        \/ DirectRollback(c)
        \/ DirectNeo4jExecute(c)
        \/ DirectPostgresExecute(c)

SpecDirect == Init /\ [][NextDirect]_vars

\* ------------------------------------------------------------------ C13
\* the adapters' side of the world: calls made, handles and stored data
AdapterSide ==
    <<calls, faulted, neo4j_handles, postgres_handles, neo4j_store,
      postgres_store>>

C13_Step ==
    \A c \in CtxIds :
        /\ exc'[c].rejected # exc[c].rejected =>
               /\ ctx[c].state \notin Accepts(exc'[c].rejected[1])
               /\ exc'[c].rejected[2] = "TransactionError"
               /\ ctx'[c] = ctx[c]
               /\ AdapterSide' = AdapterSide
        /\ exc'[c].rejected = exc[c].rejected /\ ctx'[c] # ctx[c]
           /\ ctx[c].state # "absent" =>
               \E op \in {"begin", "commit", "rollback", "neo4j_execute",
                          "postgres_execute"} :
                   ctx[c].state \in Accepts(op)

\* C13: a call of begin outside Pending, of commit or an execute method
\* outside Active, or of rollback outside Active, Preparing and Prepared
\* raises TransactionError, leaves the context as it was and makes no adapter
\* call; a step that changes a context starts in a state that accepts some
\* operation.
C13_GuardsRaiseAndLeaveState == [][C13_Step]_vars

C13_Witness ==
    \E c \in CtxIds :
        /\ ctx[c].state = "committed"
        /\ calls[c]["n_commit"] = 1
        /\ exc[c].rejected = <<"rollback", "TransactionError">>
        /\ \A m \in {"n_rollback", "p_rollback"} : calls[c][m] = 0

\* ===================================================== connection supervisor
\* One adapter object (BaseConnection with the connect / disconnect /
\* health_check of Neo4jConnection and PostgresConnection, which assign the
\* state alike) used by asyncio tasks that interleave at awaits: the awaits
\* of connect_with_retry are the driver's connect and the backoff sleep.
\* Time is counted in seconds: Tick lets one second pass.

\* what the supervisor leaves alone
Frame == UNCHANGED <<engine_vars, facade_vars, service_vars, config>>

ConfigUnchanged ==
    UNCHANGED <<max_retry_attempts, retry_max_delay, enable_auto_reconnect>>

\* n driver calls fail in this step
DriverFaults(n) ==
    /\ conn_faults + n <= MaxConnFaults
    /\ conn_faults' = conn_faults + n

NoFault == UNCHANGED conn_faults

Min(x, y) == IF x <= y THEN x ELSE y

\* the error the adapter's connect raises
ConnectError(a) ==
    IF a = "neo4j" THEN "Neo4jConnectionError" ELSE "PostgresConnectionError"

\* BaseConnection.is_connected
IsConnected(a) == conn_state[a] = "connected"

\* BaseConnection._calculate_backoff_delay
CalculateBackoffDelay(attempt) ==
    Min(retry_backoff_factor ^ attempt, retry_max_delay)

\* a breaker check that always lets the attempt through
ShouldAttemptReconnect_Always(a) == TRUE

\* BaseConnection._should_attempt_reconnect
ShouldAttemptReconnect(a) ==
    IF ~circuit_breaker_open[a] THEN TRUE
    ELSE IF circuit_breaker_last_failure[a] = NoFailure THEN TRUE
    ELSE circuit_breaker_last_failure[a] >= retry_max_delay

\* BaseConnection._open_circuit_breaker
OpenCircuitBreaker(a) ==
    /\ circuit_breaker_open' = [circuit_breaker_open EXCEPT ![a] = TRUE]
    /\ circuit_breaker_last_failure' =
           [circuit_breaker_last_failure EXCEPT ![a] = 0]

\* an except clause that sleeps and retries once more than configured
HandleFailure_OneMore(a, k, e, outcome) ==
    LET c == call[a][k]
        c1 == [c EXCEPT !.last_error = e, !.outcomes = Append(@, outcome)]
    IN  /\ retry_count' = [retry_count EXCEPT ![a] = c.attempt + 1]
        /\ IF c.attempt <= max_retry_attempts
           THEN /\ call' = [call EXCEPT ![a][k] =
                               [c1 EXCEPT !.pc = "sleeping",
                                          !.remaining =
                                              CalculateBackoffDelay(c.attempt)]]
                /\ UNCHANGED <<circuit_breaker_open,
                               circuit_breaker_last_failure>>
           ELSE /\ OpenCircuitBreaker(a)
                /\ call' = [call EXCEPT ![a][k] =
                               [c1 EXCEPT !.pc = "done",
                                          !.result = "RetryExhaustedError"]]

\* an except clause that gives up without opening the breaker
HandleFailure_NoBreaker(a, k, e, outcome) ==
    LET c == call[a][k]
        c1 == [c EXCEPT !.last_error = e, !.outcomes = Append(@, outcome)]
    IN  /\ retry_count' = [retry_count EXCEPT ![a] = c.attempt + 1]
        /\ UNCHANGED <<circuit_breaker_open, circuit_breaker_last_failure>>
        /\ IF c.attempt < max_retry_attempts
           THEN call' = [call EXCEPT ![a][k] =
                            [c1 EXCEPT !.pc = "sleeping",
                                       !.remaining =
                                           CalculateBackoffDelay(c.attempt)]]
           ELSE call' = [call EXCEPT ![a][k] =
                            [c1 EXCEPT !.pc = "done",
                                       !.result = "RetryExhaustedError"]]

\* connect_with_retry, the "except Exception as e" clause and what follows
\* the loop: attempt number c.attempt raised e
HandleFailure(a, k, e, outcome) ==
    LET c == call[a][k]
        c1 == [c EXCEPT !.last_error = e, !.outcomes = Append(@, outcome)]
    IN  /\ retry_count' = [retry_count EXCEPT ![a] = c.attempt + 1]
        /\ IF c.attempt < max_retry_attempts
           THEN /\ call' = [call EXCEPT ![a][k] =
                               [c1 EXCEPT !.pc = "sleeping",
                                          !.remaining =
                                              CalculateBackoffDelay(c.attempt)]]
                /\ UNCHANGED <<circuit_breaker_open,
                               circuit_breaker_last_failure>>
           ELSE /\ OpenCircuitBreaker(a)
                /\ call' = [call EXCEPT ![a][k] =
                               [c1 EXCEPT !.pc = "done",
                                          !.result = "RetryExhaustedError"]]

\* the caller has no operation in progress on the adapter
Free(a, k) == call[a][k].pc \in {"idle", "done"}

\* a call of connect_with_retry begins: the retry loop is entered
StartRetryLoop(a, k, op) ==
    call' = [call EXCEPT ![a][k] =
                [IdleCall EXCEPT !.pc = "attempt", !.op = op]]

\* an operation that returns or raises at once
Finished(a, k, op, result) ==
    call' = [call EXCEPT ![a][k] =
                [IdleCall EXCEPT !.pc = "done", !.op = op, !.result = result]]

\* connect up to its await: the state is Connecting and the driver / pool
\* object is created
ConnectBegin(a) ==
    /\ conn_state' = [conn_state EXCEPT ![a] = "connecting"]
    /\ driver' = [driver EXCEPT ![a] = TRUE]

\* one pass of the retry loop up to its first await: the breaker check and
\* the start of connect
Attempt(a, k) ==
    /\ call[a][k].pc = "attempt"
    /\ IF circuit_breaker_open[a] /\ ~ShouldAttemptReconnect(a)
       THEN /\ HandleFailure(a, k, "GraphConnectionError", "short_circuit")
            /\ UNCHANGED <<conn_state, driver>>
       ELSE /\ circuit_breaker_open' = [circuit_breaker_open EXCEPT ![a] = FALSE]
            /\ ConnectBegin(a)
            /\ call' = [call EXCEPT ![a][k] =
                           [@ EXCEPT !.pc = "connecting",
                                     !.half_open = @ \/ circuit_breaker_open[a]]]
            /\ UNCHANGED <<retry_count, circuit_breaker_last_failure>>
    /\ NoFault
    /\ ConfigUnchanged
    /\ Frame

\* the driver answers the connect the caller awaits; ok: it succeeded
ConnectFinish(a, k) ==
    /\ call[a][k].pc = "connecting"
    /\ \E ok \in BOOLEAN :
        IF ok
        THEN /\ NoFault
             /\ conn_state' = [conn_state EXCEPT ![a] = "connected"]
             /\ retry_count' = IF call[a][k].op = "connect" THEN retry_count
                               ELSE [retry_count EXCEPT ![a] = 0]
             /\ call' = [call EXCEPT ![a][k] =
                            [@ EXCEPT !.pc = "done", !.result = "ok",
                                      !.outcomes = Append(@, "ok")]]
             /\ UNCHANGED <<circuit_breaker_open, circuit_breaker_last_failure>>
        ELSE /\ DriverFaults(1)
             /\ conn_state' = [conn_state EXCEPT ![a] = "failed"]
             /\ IF call[a][k].op = "connect"
                THEN /\ call' = [call EXCEPT ![a][k] =
                                    [@ EXCEPT !.pc = "done",
                                              !.result = ConnectError(a),
                                              !.outcomes =
                                                  Append(@, "connect_failed")]]
                     /\ UNCHANGED <<retry_count, circuit_breaker_open,
                                    circuit_breaker_last_failure>>
                ELSE HandleFailure(a, k, ConnectError(a), "connect_failed")
    /\ UNCHANGED driver
    /\ ConfigUnchanged
    /\ Frame

\* the backoff sleep is over: the next pass of the loop begins
Wake(a, k) ==
    /\ call[a][k].pc = "sleeping"
    /\ call[a][k].remaining = 0
    /\ call' = [call EXCEPT ![a][k] =
                   [@ EXCEPT !.pc = "attempt", !.attempt = @ + 1]]
    /\ UNCHANGED <<conn_state, driver, retry_count, circuit_breaker_open,
                   circuit_breaker_last_failure>>
    /\ NoFault
    /\ ConfigUnchanged
    /\ Frame

\* One second passes.  The time since the breaker's last failure is only
\* ever compared with retry_max_delay, so it is counted up to that value.
Tick ==
    /\ circuit_breaker_last_failure' =
           [a \in Adapters |->
               IF circuit_breaker_last_failure[a] = NoFailure THEN NoFailure
               ELSE Min(circuit_breaker_last_failure[a] + 1, retry_max_delay)]
    /\ call' = [a \in Adapters |-> [k \in Callers |->
                   IF call[a][k].pc = "sleeping" /\ call[a][k].remaining > 0
                   THEN [call[a][k] EXCEPT !.remaining = @ - 1]
                   ELSE call[a][k]]]
    /\ <<circuit_breaker_last_failure, call>>' # <<circuit_breaker_last_failure, call>>
    /\ UNCHANGED <<conn_state, driver, retry_count, circuit_breaker_open>>
    /\ NoFault
    /\ ConfigUnchanged
    /\ Frame

\* a caller calls connect_with_retry
OpConnectWithRetry(a, k) ==
    /\ Free(a, k)
    /\ StartRetryLoop(a, k, "connect_with_retry")
    /\ UNCHANGED <<conn_state, driver, retry_count, circuit_breaker_open,
                   circuit_breaker_last_failure>>
    /\ NoFault
    /\ ConfigUnchanged
    /\ Frame

\* a caller calls ensure_connected
OpEnsureConnected(a, k) ==
    /\ Free(a, k)
    /\ IF IsConnected(a) THEN Finished(a, k, "ensure_connected", "ok")
       ELSE StartRetryLoop(a, k, "ensure_connected")
    /\ UNCHANGED <<conn_state, driver, retry_count, circuit_breaker_open,
                   circuit_breaker_last_failure>>
    /\ NoFault
    /\ ConfigUnchanged
    /\ Frame

\* A caller runs a query outside a transaction (execute_query): it begins
\* with ensure_connected; when the adapter is connected the query runs, and
\* when the driver reports the server unavailable and enable_auto_reconnect
\* is set, connect_with_retry is called.  The query that follows a
\* successful reconnect changes nothing of the adapter and is left out.
OpQuery(a, k) ==
    /\ Free(a, k)
    /\ IF ~IsConnected(a) THEN StartRetryLoop(a, k, "query") /\ NoFault
       ELSE \E unavailable \in BOOLEAN :
           IF ~unavailable THEN Finished(a, k, "query", "ok") /\ NoFault
           ELSE /\ DriverFaults(1)
                /\ IF enable_auto_reconnect THEN StartRetryLoop(a, k, "query")
                   ELSE Finished(a, k, "query", ConnectError(a))
    /\ UNCHANGED <<conn_state, driver, retry_count, circuit_breaker_open,
                   circuit_breaker_last_failure>>
    /\ ConfigUnchanged
    /\ Frame

\* a caller calls the adapter's connect itself
OpConnect(a, k) ==
    /\ Free(a, k)
    /\ ConnectBegin(a)
    /\ call' = [call EXCEPT ![a][k] =
                   [IdleCall EXCEPT !.pc = "connecting", !.op = "connect"]]
    /\ UNCHANGED <<retry_count, circuit_breaker_open,
                   circuit_breaker_last_failure>>
    /\ NoFault
    /\ ConfigUnchanged
    /\ Frame

\* the adapter's disconnect; ok: closing the driver / pool succeeded.  The
\* result is the adapter's state and whether it still has a driver / pool.
Disconnect(a, ok) ==
    IF ~driver[a] THEN [state |-> conn_state[a], driver |-> FALSE]
    ELSE IF ok THEN [state |-> "closed", driver |-> FALSE]
    ELSE [state |-> "failed", driver |-> TRUE]

\* outcomes of closing the driver / pool in disconnect (TRUE: it succeeds);
\* without a driver nothing is closed
CloseOutcomes(a) == IF driver[a] THEN BOOLEAN ELSE {TRUE}

\* a caller calls disconnect
OpDisconnect(a) ==
    /\ \E ok \in CloseOutcomes(a) :
        /\ DriverFaults(IF ok THEN 0 ELSE 1)
        /\ conn_state' = [conn_state EXCEPT ![a] = Disconnect(a, ok).state]
        /\ driver' = [driver EXCEPT ![a] = Disconnect(a, ok).driver]
    /\ UNCHANGED <<retry_count, circuit_breaker_open,
                   circuit_breaker_last_failure, call>>
    /\ ConfigUnchanged
    /\ Frame

\* outcomes of the probe query of health_check: it answers, the driver
\* reports the server unavailable, or anything else is raised
ProbeOutcomes == {"healthy", "unavailable", "error"}

\* the adapter's health_check: whether it reports healthy, and the state it
\* leaves the adapter in
HealthCheck(a, outcome) ==
    IF ~driver[a] THEN [healthy |-> FALSE, state |-> conn_state[a]]
    ELSE IF outcome = "healthy" THEN [healthy |-> TRUE, state |-> conn_state[a]]
    ELSE IF outcome = "unavailable" /\ enable_auto_reconnect
    THEN [healthy |-> FALSE, state |-> "reconnecting"]
    ELSE [healthy |-> FALSE, state |-> conn_state[a]]

\* outcomes of the probe query health_check runs; without a driver none runs
ProbeInputs(a) == IF driver[a] THEN ProbeOutcomes ELSE {"healthy"}

\* a caller calls health_check
OpHealthCheck(a) ==
    /\ \E outcome \in ProbeInputs(a) :
        /\ DriverFaults(IF outcome = "healthy" THEN 0 ELSE 1)
        /\ conn_state' = [conn_state EXCEPT ![a] = HealthCheck(a, outcome).state]
    /\ UNCHANGED <<driver, retry_count, circuit_breaker_open,
                   circuit_breaker_last_failure, call>>
    /\ ConfigUnchanged
    /\ Frame

\* the adapter whose callers the supervisor's behaviours follow, and the
\* callers: a user task and one health check loop
Supervised == {"neo4j"}
ConnCallers == {"user", "loop1"}

InitConn ==
    /\ EngineInit(FALSE)
    /\ FacadeInit
    /\ QueryInit /\ BatchInit /\ AstInit /\ IntentInit /\ SearchInit
    /\ ConfigInit
    /\ \E attempts \in 0..MaxRetry, delay \in 1..MaxDelay, auto \in BOOLEAN :
        SupervisorInit(attempts, delay, auto)

NextConn ==
    \/ Tick
    \/ \E a \in Supervised :
        \/ OpDisconnect(a)
        \/ OpHealthCheck(a)
        \/ OpConnect(a, "user")
        \/ OpEnsureConnected(a, "user")
        \/ OpQuery(a, "user")
        \/ \E k \in ConnCallers :
            \/ OpConnectWithRetry(a, k)
            \/ Attempt(a, k)
            \/ ConnectFinish(a, k)
            \/ Wake(a, k)

SpecConn == InitConn /\ [][NextConn]_vars

\* ------------------------------------------------- supervisor vocabulary
RetryOps == {"connect_with_retry", "ensure_connected", "query"}

\* the call is a run of connect_with_retry (an operation that returned
\* without calling it has made no attempt)
InRetryLoop(c) ==
    /\ c.op \in RetryOps
    /\ \/ c.pc \in {"attempt", "connecting", "sleeping"}
       \/ c.pc = "done" /\ c.outcomes # <<>>

\* number of times the call has invoked the adapter's connect
Connects(c) ==
    Cardinality({i \in DOMAIN c.outcomes : c.outcomes[i] # "short_circuit"})
    + (IF c.pc = "connecting" THEN 1 ELSE 0)

\* the call returns (or raises) in this step
Returns(a, k) == call[a][k].pc # "done" /\ call'[a][k].pc = "done"

\* ------------------------------------------------------------------ C14
\* C14: one call of connect_with_retry invokes connect at most
\* max_retry_attempts + 1 times, no attempt follows a successful connect, and
\* a call whose connects all fail and that is never stopped by the breaker
\* has invoked connect exactly max_retry_attempts + 1 times when it returns
\* (once for max_retry_attempts = 0).
C14_AttemptsCappedAndStopAtSuccess ==
    \A a \in Adapters, k \in Callers :
        LET c == call[a][k] IN
        InRetryLoop(c) =>
            /\ Connects(c) <= max_retry_attempts + 1
            /\ Len(c.outcomes) <= max_retry_attempts + 1
            /\ \A i \in DOMAIN c.outcomes :
                   c.outcomes[i] = "ok" =>
                       i = Len(c.outcomes) /\ c.pc = "done" /\ c.result = "ok"
            /\ c.pc = "done" /\ c.result # "ok"
               /\ (\A i \in DOMAIN c.outcomes : c.outcomes[i] = "connect_failed")
                   => Connects(c) = max_retry_attempts + 1

C14_Witness ==
    \E a \in Adapters, k \in Callers :
        /\ max_retry_attempts = MaxRetry
        /\ call[a][k].op = "connect_with_retry"
        /\ call[a][k].pc = "done"
        /\ Connects(call[a][k]) = max_retry_attempts + 1
        /\ call[a][k].outcomes[1] = "connect_failed"
        /\ call[a][k].outcomes[Len(call[a][k].outcomes)] = "ok"

\* ------------------------------------------------------------------ C15
\* every attempt the call has made failed
AllAttemptsFailed(c) ==
    /\ Len(c.outcomes) = max_retry_attempts + 1
    /\ \A i \in DOMAIN c.outcomes : c.outcomes[i] # "ok"

\* the exception an attempt with this outcome raised
ErrorOf(a, outcome) ==
    IF outcome = "short_circuit" THEN "GraphConnectionError" ELSE ConnectError(a)

C15_State ==
    \A a \in Adapters, k \in Callers :
        LET c == call[a][k] IN
        InRetryLoop(c) /\ c.pc = "done" =>
            /\ AllAttemptsFailed(c) <=> c.result = "RetryExhaustedError"
            /\ AllAttemptsFailed(c) =>
                   c.last_error = ErrorOf(a, c.outcomes[Len(c.outcomes)])

C15_Step ==
    \A a \in Adapters, k \in Callers :
        Returns(a, k) /\ call'[a][k].result = "RetryExhaustedError" =>
            /\ circuit_breaker_open'[a]
            /\ circuit_breaker_last_failure'[a] = 0

\* C15: a call of connect_with_retry whose max_retry_attempts + 1 attempts
\* all failed raises RetryExhaustedError with last_error the exception of the
\* final attempt (and only such a call does), and in the step in which it
\* returns the breaker is open.
C15_ExhaustionOpensBreaker == [](C15_State) /\ [][C15_Step]_vars

C15_Witness ==
    \E a \in Adapters, k \in Callers :
        /\ max_retry_attempts = MaxRetry
        /\ call[a][k].pc = "done"
        /\ call[a][k].result = "RetryExhaustedError"
        /\ call[a][k].last_error = ConnectError(a)
        /\ Len(call[a][k].outcomes) = MaxRetry + 1
        /\ circuit_breaker_open[a]

\* ------------------------------------------------------------------ C16
\* the breaker is open and less than retry_max_delay has passed since its
\* last failure
BreakerRejects(a) ==
    /\ circuit_breaker_open[a]
    /\ circuit_breaker_last_failure[a] # NoFailure
    /\ circuit_breaker_last_failure[a] < retry_max_delay

\* C16: an attempt of connect_with_retry made while the breaker is open and
\* less than retry_max_delay has passed since its last failure raises
\* GraphConnectionError and does not invoke connect: the adapter's state and
\* driver stay as they are.
C16_Step ==
    \A a \in Adapters, k \in Callers :
        call[a][k].pc = "attempt" /\ BreakerRejects(a)
        /\ call'[a][k] # call[a][k] =>
            /\ call'[a][k].pc # "connecting"
            /\ call'[a][k].last_error = "GraphConnectionError"
            /\ call'[a][k].outcomes = Append(call[a][k].outcomes, "short_circuit")
            /\ Connects(call'[a][k]) = Connects(call[a][k])
            /\ conn_state'[a] = conn_state[a]
            /\ driver'[a] = driver[a]

C17_Step ==
    \A a \in Adapters, k \in Callers :
        /\ call[a][k].pc = "attempt" /\ circuit_breaker_open[a]
           /\ ~BreakerRejects(a) /\ call'[a][k] # call[a][k] =>
               call'[a][k].pc = "connecting" /\ call'[a][k].half_open
        /\ Returns(a, k) /\ call'[a][k].half_open =>
               IF call'[a][k].result = "ok"
               THEN ~circuit_breaker_open'[a]
               ELSE circuit_breaker_open'[a]

C17_HalfOpenThenCloseOrReopen == [][C17_Step]_vars

\* ------------------------------------------------------------------ C18
\* C18: Closed is terminal: no step moves an adapter out of state Closed.
C18_Step ==
    \A a \in Adapters :
        conn_state[a] = "closed" => conn_state'[a] = "closed"

C18_ClosedIsTerminal == [][C18_Step]_vars

\* ================================================= facade and health loop
\* GraphPostgresManager: initialize, close and the task that runs
\* _health_check_loop.  One user task calls initialize and close, one call at
\* a time; the loop tasks and the connect_with_retry calls they and
\* initialize start interleave with it at their awaits.

FacadeFrame == UNCHANGED <<engine_vars, service_vars, config>>

AdapterUnchanged ==
    UNCHANGED <<conn_state, driver, retry_count, circuit_breaker_open,
                circuit_breaker_last_failure>>

\* an initialize that connects whether or not the facade is initialized
InitializeBegin_NoGuard ==
    /\ facade_pc = "idle"
    /\ \A a \in Adapters : Free(a, "user")
    /\ facade_pc' = "initializing"
    /\ call' = [a \in Adapters |->
                   [call[a] EXCEPT !["user"] =
                       [IdleCall EXCEPT !.pc = "attempt",
                                        !.op = "connect_with_retry"]]]
    /\ UNCHANGED <<is_initialized, health_check_task, loop, last_returned>>
    /\ AdapterUnchanged
    /\ NoFault
    /\ ConfigUnchanged
    /\ FacadeFrame

\* initialize up to its first await: a second initialize returns at once,
\* otherwise connect_with_retry is started on both adapters (asyncio.gather)
InitializeBegin ==
    /\ facade_pc = "idle"
    /\ \A a \in Adapters : Free(a, "user")
    /\ IF is_initialized
       THEN /\ last_returned' = "initialize"
            /\ UNCHANGED <<facade_pc, call>>
       ELSE /\ facade_pc' = "initializing"
            /\ call' = [a \in Adapters |->
                           [call[a] EXCEPT !["user"] =
                               [IdleCall EXCEPT !.pc = "attempt",
                                                !.op = "connect_with_retry"]]]
            /\ UNCHANGED last_returned
    /\ UNCHANGED <<is_initialized, health_check_task, loop>>
    /\ AdapterUnchanged
    /\ NoFault
    /\ ConfigUnchanged
    /\ FacadeFrame

\* the gather of initialize raises as soon as one connect_with_retry does;
\* the other one keeps running
InitializeRaise ==
    /\ facade_pc = "initializing"
    /\ \E a \in Adapters :
        /\ call[a]["user"].pc = "done"
        /\ call[a]["user"].result # "ok"
    /\ facade_pc' = "idle"
    /\ last_returned' = "initialize_raised"
    /\ call' = [a \in Adapters |->
                   IF call[a]["user"].pc = "done"
                   THEN [call[a] EXCEPT !["user"] = IdleCall]
                   ELSE call[a]]
    /\ UNCHANGED <<is_initialized, health_check_task, loop>>
    /\ AdapterUnchanged
    /\ NoFault
    /\ ConfigUnchanged
    /\ FacadeFrame

\* the loop ids no task has been created for
FreshLoops == {i \in LoopIds : loop[i].pc = "absent"}

\* Both adapters are connected: initialize creates the health check task
\* (health_check_interval > 0 holds for every valid configuration), builds the
\* managers and awaits initialize_metadata_schema; schema_ok: that succeeded.
InitializeFinish ==
    /\ facade_pc = "initializing"
    /\ \A a \in Adapters :
        call[a]["user"].pc = "done" /\ call[a]["user"].result = "ok"
    /\ FreshLoops # {}
    /\ LET i == IF "loop1" \in FreshLoops THEN "loop1" ELSE "loop2" IN
       /\ loop' = [loop EXCEPT ![i] = [NoLoop EXCEPT !.pc = "sleeping"]]
       /\ health_check_task' = i
    /\ \E schema_ok \in BOOLEAN :
        /\ DriverFaults(IF schema_ok THEN 0 ELSE 1)
        /\ is_initialized' = schema_ok
        /\ last_returned' = IF schema_ok THEN "initialize"
                            ELSE "initialize_raised"
    /\ facade_pc' = "idle"
    /\ call' = [a \in Adapters |-> [call[a] EXCEPT !["user"] = IdleCall]]
    /\ AdapterUnchanged
    /\ ConfigUnchanged
    /\ FacadeFrame

\* close up to its await: the health check task is cancelled
CloseBegin ==
    /\ facade_pc = "idle"
    /\ facade_pc' = "closing"
    /\ loop' = IF health_check_task # "none"
                  /\ loop[health_check_task].pc # "terminated"
               THEN [loop EXCEPT ![health_check_task].cancel_requested = TRUE]
               ELSE loop
    /\ UNCHANGED <<is_initialized, health_check_task, last_returned, call>>
    /\ AdapterUnchanged
    /\ NoFault
    /\ ConfigUnchanged
    /\ FacadeFrame

\* the awaited task has ended: close disconnects both adapters (a failing
\* disconnect is swallowed) and returns
CloseFinish ==
    /\ facade_pc = "closing"
    /\ health_check_task # "none" => loop[health_check_task].pc = "terminated"
    /\ \E ok \in [Adapters -> BOOLEAN] :
        /\ \A a \in Adapters : ok[a] \in CloseOutcomes(a)
        /\ DriverFaults(Cardinality({a \in Adapters : ~ok[a]}))
        /\ conn_state' = [a \in Adapters |-> Disconnect(a, ok[a]).state]
        /\ driver' = [a \in Adapters |-> Disconnect(a, ok[a]).driver]
    /\ is_initialized' = FALSE
    /\ facade_pc' = "idle"
    /\ last_returned' = "close"
    /\ UNCHANGED <<health_check_task, loop, call, retry_count,
                   circuit_breaker_open, circuit_breaker_last_failure>>
    /\ ConfigUnchanged
    /\ FacadeFrame

\* the loop task is at an await and running (not cancelled)
Running(i) ==
    /\ loop[i].pc \notin {"absent", "terminated"}
    /\ ~loop[i].cancel_requested

\* the interval sleep is over: the iteration begins with the graph probe
LoopWake(i) ==
    /\ Running(i)
    /\ loop[i].pc = "sleeping"
    /\ loop' = [loop EXCEPT ![i] =
                   [@ EXCEPT !.pc = "probe_neo4j",
                             !.healthy = [a \in Adapters |-> TRUE],
                             !.reconnected = {}]]
    /\ UNCHANGED <<is_initialized, health_check_task, facade_pc, last_returned,
                   call>>
    /\ AdapterUnchanged
    /\ NoFault
    /\ ConfigUnchanged
    /\ FacadeFrame

\* GraphPostgresManager.health_check, first await: the graph adapter's probe
\* answers.  What the probe query raises is caught in the adapter's
\* health_check and answered as unhealthy.
LoopProbeNeo4j(i) ==
    /\ Running(i)
    /\ loop[i].pc = "probe_neo4j"
    /\ \E outcome \in ProbeInputs("neo4j") :
        LET r == HealthCheck("neo4j", outcome) IN
        /\ DriverFaults(IF outcome = "healthy" THEN 0 ELSE 1)
        /\ conn_state' = [conn_state EXCEPT !["neo4j"] = r.state]
        /\ loop' = [loop EXCEPT ![i] =
                       [@ EXCEPT !.pc = "probe_postgres",
                                 !.healthy["neo4j"] = r.healthy]]
    /\ UNCHANGED <<is_initialized, health_check_task, facade_pc, last_returned,
                   call, driver, retry_count, circuit_breaker_open,
                   circuit_breaker_last_failure>>
    /\ ConfigUnchanged
    /\ FacadeFrame

\* the adapters the loop reconnects after its probes
ToReconnect(healthy) == {a \in Adapters : ~healthy[a]}

\* GraphPostgresManager.health_check, second await: the SQL adapter's probe
\* answers, and the loop acts on the status up to its next await: when an
\* adapter is unhealthy it starts connect_with_retry on the unhealthy ones
\* and awaits their gather, otherwise it sleeps again.
LoopProbePostgres(i) ==
    /\ Running(i)
    /\ loop[i].pc = "probe_postgres"
    /\ \E outcome \in ProbeInputs("postgres") :
        LET r == HealthCheck("postgres", outcome)
            healthy == [loop[i].healthy EXCEPT !["postgres"] = r.healthy]
            tasks == ToReconnect(healthy)
        IN  /\ DriverFaults(IF outcome = "healthy" THEN 0 ELSE 1)
            /\ conn_state' = [conn_state EXCEPT !["postgres"] = r.state]
            /\ loop' = [loop EXCEPT ![i] =
                           [@ EXCEPT !.pc = IF tasks = {} THEN "sleeping"
                                            ELSE "reconnecting",
                                     !.healthy = healthy,
                                     !.reconnected = tasks]]
            /\ call' = [a \in Adapters |->
                           IF a \in tasks
                           THEN [call[a] EXCEPT ![i] =
                                    [IdleCall EXCEPT
                                        !.pc = "attempt",
                                        !.op = "connect_with_retry"]]
                           ELSE call[a]]
    /\ UNCHANGED <<is_initialized, health_check_task, facade_pc, last_returned,
                   driver, retry_count, circuit_breaker_open,
                   circuit_breaker_last_failure>>
    /\ ConfigUnchanged
    /\ FacadeFrame

\* a gather whose first exception ends the loop
AfterGather_Break(i) ==
    IF \E a \in loop[i].reconnected : call[a][i].result # "ok"
    THEN "terminated" ELSE "sleeping"

\* where the loop goes when the gather of the reconnects is over:
\* return_exceptions = True, what they raised is dropped and the loop sleeps
\* again
AfterGather(i) == "sleeping"

\* the gather of the reconnects is over
LoopReconnected(i) ==
    /\ Running(i)
    /\ loop[i].pc = "reconnecting"
    /\ \A a \in loop[i].reconnected : call[a][i].pc = "done"
    /\ loop' = [loop EXCEPT ![i] =
                   [@ EXCEPT !.pc = AfterGather(i),
                             !.survived =
                                 @ \/ \E a \in loop[i].reconnected :
                                          call[a][i].result # "ok"]]
    /\ call' = [a \in Adapters |-> [call[a] EXCEPT ![i] = IdleCall]]
    /\ UNCHANGED <<is_initialized, health_check_task, facade_pc, last_returned>>
    /\ AdapterUnchanged
    /\ NoFault
    /\ ConfigUnchanged
    /\ FacadeFrame

\* The cancellation is delivered at the await the loop task is at:
\* CancelledError is not an Exception, the loop breaks.  A gather that is
\* cancelled cancels the connect_with_retry calls it awaits, which end at
\* their await.
LoopCancelled(i) ==
    /\ loop[i].pc \notin {"absent", "terminated"}
    /\ loop[i].cancel_requested
    /\ loop' = [loop EXCEPT ![i] =
                   [@ EXCEPT !.pc = "terminated", !.cancel_requested = FALSE]]
    /\ call' = [a \in Adapters |->
                   [call[a] EXCEPT ![i] = IdleCall]]
    /\ UNCHANGED <<is_initialized, health_check_task, facade_pc, last_returned>>
    /\ AdapterUnchanged
    /\ NoFault
    /\ ConfigUnchanged
    /\ FacadeFrame

\* the data operations of the facade
Operations ==
    {"execute_neo4j_query", "execute_postgres_query", "batch_insert_neo4j",
     "batch_insert_postgres", "transaction", "store_ast_graph",
     "search_unified", "link_intent_to_ast", "get_ast_nodes_by_intent",
     "get_intents_for_ast", "search_ast_by_intent_vector",
     "update_intent_confidence", "remove_intent_mapping"}

\* the adapters an operation of an initialized facade is forwarded to
\* (transaction only builds a context)
OperationAdapters(op) ==
    IF op \in {"execute_neo4j_query", "batch_insert_neo4j", "store_ast_graph"}
    THEN {"neo4j"}
    ELSE IF op = "search_unified" THEN Adapters
    ELSE IF op = "transaction" THEN {}
    ELSE {"postgres"}

\* The adapter call of a forwarded operation up to its first await: the
\* adapter's ensure_connected enters the retry loop when the adapter is not
\* connected, otherwise the query runs; ok: it succeeded.
Forward(a, ok) ==
    IF ~IsConnected(a)
    THEN [IdleCall EXCEPT !.pc = "attempt", !.op = "query"]
    ELSE [IdleCall EXCEPT !.pc = "done", !.op = "query",
                          !.result = IF ok THEN "ok" ELSE ConnectError(a)]

\* the outcomes of the queries a forwarded operation runs at once
ForwardInputs(op) ==
    {ok \in [Adapters -> BOOLEAN] :
        \A a \in Adapters :
            ~ok[a] => a \in OperationAdapters(op) /\ IsConnected(a)}

\* a data operation that forwards without looking at the initialized flag
DataOperation_NoGuard(op) ==
    /\ facade_pc = "idle"
    /\ \A a \in Adapters : Free(a, "user")
    /\ IF OperationAdapters(op) = {}
       THEN /\ last_returned' = "operation"
            /\ NoFault
            /\ UNCHANGED <<facade_pc, call>>
       ELSE /\ \E ok \in ForwardInputs(op) :
                /\ DriverFaults(Cardinality({a \in Adapters : ~ok[a]}))
                /\ call' = [a \in Adapters |->
                               IF a \in OperationAdapters(op)
                               THEN [call[a] EXCEPT !["user"] = Forward(a, ok[a])]
                               ELSE call[a]]
            /\ facade_pc' = IF op = "search_unified" THEN "searching"
                            ELSE "operating"
            /\ UNCHANGED last_returned
    /\ UNCHANGED <<is_initialized, health_check_task, loop>>
    /\ AdapterUnchanged
    /\ ConfigUnchanged
    /\ FacadeFrame

\* The user calls a data operation of the facade: it raises
\* GraphPostgresManagerException("Manager not initialized") unless
\* _is_initialized is set, and is forwarded otherwise.
DataOperation(op) ==
    /\ facade_pc = "idle"
    /\ \A a \in Adapters : Free(a, "user")
    /\ IF ~is_initialized
       THEN /\ last_returned' = "GraphPostgresManagerException"
            /\ NoFault
            /\ UNCHANGED <<facade_pc, call>>
       ELSE IF OperationAdapters(op) = {}
       THEN /\ last_returned' = "operation"
            /\ NoFault
            /\ UNCHANGED <<facade_pc, call>>
       ELSE /\ \E ok \in ForwardInputs(op) :
                /\ DriverFaults(Cardinality({a \in Adapters : ~ok[a]}))
                /\ call' = [a \in Adapters |->
                               IF a \in OperationAdapters(op)
                               THEN [call[a] EXCEPT !["user"] = Forward(a, ok[a])]
                               ELSE call[a]]
            /\ facade_pc' = IF op = "search_unified" THEN "searching"
                            ELSE "operating"
            /\ UNCHANGED last_returned
    /\ UNCHANGED <<is_initialized, health_check_task, loop>>
    /\ AdapterUnchanged
    /\ ConfigUnchanged
    /\ FacadeFrame

\* The adapter calls of the forwarded operation are over: the operation
\* returns, or raises what an adapter raised (the search branches are
\* gathered with return_exceptions = True and raise nothing).
DataOperationReturn ==
    /\ facade_pc \in {"operating", "searching"}
    /\ \A a \in Adapters : Free(a, "user")
    /\ last_returned' =
           IF facade_pc = "operating"
              /\ \E a \in Adapters : call[a]["user"].pc = "done"
                                     /\ call[a]["user"].result # "ok"
           THEN "operation_raised" ELSE "operation"
    /\ facade_pc' = "idle"
    /\ call' = [a \in Adapters |-> [call[a] EXCEPT !["user"] = IdleCall]]
    /\ UNCHANGED <<is_initialized, health_check_task, loop>>
    /\ AdapterUnchanged
    /\ NoFault
    /\ ConfigUnchanged
    /\ FacadeFrame

\* the facade built from a configuration
InitHealth ==
    /\ EngineInit(FALSE)
    /\ \E attempts \in 0..MaxRetry, auto \in BOOLEAN :
           SupervisorInit(attempts, 1, auto)
    /\ FacadeInit
    /\ QueryInit /\ BatchInit /\ AstInit /\ IntentInit /\ SearchInit
    /\ ConfigInit

NextHealth ==
    \/ InitializeBegin
    \/ InitializeRaise
    \/ InitializeFinish
    \/ CloseBegin
    \/ CloseFinish
    \/ \E op \in Operations : DataOperation(op)
    \/ DataOperationReturn
    \/ Tick
    \/ \E i \in LoopIds :
        \/ LoopWake(i)
        \/ LoopProbeNeo4j(i)
        \/ LoopProbePostgres(i)
        \/ LoopReconnected(i)
        \/ LoopCancelled(i)
    \/ \E a \in Adapters, k \in Callers :
        \/ Attempt(a, k)
        \/ ConnectFinish(a, k)
        \/ Wake(a, k)

SpecHealth == InitHealth /\ [][NextHealth]_vars

\* ------------------------------------------------------------------ C19
\* C19: in each iteration of the health loop connect_with_retry is invoked
\* on an adapter only if that adapter's probe in this iteration was unhealthy
\* and enable_auto_reconnect is set; with the flag unset the loop reconnects
\* no adapter.
C19_ReconnectOnlyIfUnhealthyAndEnabled ==
    \A i \in LoopIds : \A a \in loop[i].reconnected :
        /\ ~loop[i].healthy[a]
        /\ enable_auto_reconnect

\* ------------------------------------------------------------------ C20
\* the loop task was given its CancelledError and ended
Terminated(i) == loop[i].pc = "terminated"

\* the loop task awaits a probe or the gather of its reconnects
ProbesOrReconnects(i) ==
    \/ loop[i].pc \in {"probe_neo4j", "probe_postgres", "reconnecting"}
    \/ \E a \in Adapters : call[a][i].pc # "idle"

\* C20: the health loop the facade holds keeps iterating after a probe or a
\* reconnect attempt that failed and ends only in a step that delivers a
\* requested cancellation; an ended loop stays ended and neither probes nor
\* reconnects; and once close has returned, the loop task it cancelled has
\* ended.
C20_State ==
    /\ \A i \in LoopIds : Terminated(i) => ~ProbesOrReconnects(i)
    /\ last_returned = "close" /\ health_check_task # "none"
           => Terminated(health_check_task)

C20_Step ==
    \A i \in LoopIds :
        /\ ~Terminated(i) /\ Terminated(i)' => loop[i].cancel_requested
        /\ Terminated(i) => Terminated(i)'

NotInitializedError == "GraphPostgresManagerException"

\* a data operation of the facade is in progress on the adapters
Forwarded == facade_pc \in {"operating", "searching"}

\* C21: before initialize has completed and after close the initialized flag
\* is unset; a data operation is forwarded to an adapter only on an
\* initialized facade; on a facade that is not initialized no step forwards
\* an operation or lets one return a result, and the step in which an
\* operation raises the not-initialized error makes no call on an adapter
\* and leaves both adapters as they are.
C21_State ==
    /\ last_returned \in {"none", "initialize_raised", "close"}
           => ~is_initialized
    /\ facade_pc = "initializing" => ~is_initialized
    /\ Forwarded => is_initialized

C21_Step ==
    /\ ~is_initialized /\ facade_pc = "idle"
           => /\ ~Forwarded'
              /\ last_returned' \notin {"operation", "operation_raised"}
                     \/ last_returned' = last_returned
    /\ last_returned' = NotInitializedError /\ last_returned # NotInitializedError
           => /\ ~is_initialized
              /\ UNCHANGED <<call, conn_state, driver, retry_count,
                             circuit_breaker_open, conn_faults>>

C21_UninitializedFacadeRejects == []C21_State /\ [][C21_Step]_vars

\* a data operation was rejected on a facade that close has closed
C21_Witness ==
    /\ last_returned = NotInitializedError
    /\ health_check_task # "none"
    /\ Terminated(health_check_task)
    /\ ~is_initialized

\* ------------------------------------------------------------------ C22
\* the facade is closed: not initialized, the loop task it holds has ended
\* and no adapter holds a driver or pool
Closed ==
    /\ ~is_initialized
    /\ health_check_task # "none" => Terminated(health_check_task)
    /\ \A a \in Adapters : ~driver[a]

\* close returns in this step
CloseReturns == facade_pc = "closing" /\ facade_pc' = "idle"

C22_Step ==
    /\ is_initialized /\ facade_pc = "idle"
           => /\ facade_pc' # "initializing"
              /\ health_check_task' = health_check_task
              /\ \A i \in LoopIds : loop[i].pc = "absent" => loop'[i].pc = "absent"
              /\ \A a \in Adapters :
                     call'[a]["user"].op # "connect_with_retry"
    /\ is_initialized /\ last_returned' = "initialize"
                      /\ last_returned # "initialize"
           => UNCHANGED <<is_initialized, health_check_task, loop, call,
                          conn_state, driver>>
    /\ CloseReturns => last_returned' = "close" /\ ~is_initialized'
    /\ Closed /\ facade_pc = "idle" /\ facade_pc' = "closing"
           => UNCHANGED <<is_initialized, health_check_task, loop, call,
                          conn_state, driver>>
    /\ Closed /\ CloseReturns
           => /\ Closed'
              /\ UNCHANGED <<health_check_task, loop, call, conn_state, driver>>

QueryFrame ==
    UNCHANGED <<engine_vars, facade_vars, batch, ast, intent, search, config>>

\* what the driver answers when the query runs
RunOutcomes == {"ok", "ServiceUnavailable", "Neo4jError"}

\* await self.ensure_connected() at the top of execute_query, up to its
\* await: connect_with_retry is entered unless the adapter is connected
EnsureConnected(q) ==
    IF IsConnected("neo4j")
    THEN /\ query' = [q EXCEPT !.pc = "running"]
         /\ call' = [call EXCEPT !["neo4j"]["user"] = IdleCall]
    ELSE /\ query' = [q EXCEPT !.pc = "ensuring"]
         /\ StartRetryLoop("neo4j", "user", "ensure_connected")

\* execute_query is called; transaction: with a transaction handle
ExecuteQuery(transaction) ==
    /\ query.pc = "idle"
    /\ Free("neo4j", "user")
    /\ EnsureConnected([NoQuery EXCEPT !.transaction = transaction])
    /\ AdapterUnchanged
    /\ NoFault
    /\ ConfigUnchanged
    /\ QueryFrame

\* ensure_connected returns or raises
QueryEnsured ==
    /\ query.pc = "ensuring"
    /\ call["neo4j"]["user"].pc = "done"
    /\ query' = IF call["neo4j"]["user"].result = "ok"
                THEN [query EXCEPT !.pc = "running"]
                ELSE [query EXCEPT !.pc = "done",
                                   !.result = call["neo4j"]["user"].result]
    /\ call' = [call EXCEPT !["neo4j"]["user"] = IdleCall]
    /\ AdapterUnchanged
    /\ NoFault
    /\ ConfigUnchanged
    /\ QueryFrame

\* the "except (ServiceUnavailable, SessionExpired)" clause of execute_query
OnTransportFailure(q) ==
    IF enable_auto_reconnect /\ ~q.transaction THEN "reconnect" ELSE "raise"

\* the driver answers the query
QueryRun ==
    /\ query.pc = "running"
    /\ query.runs < MaxRuns
    /\ \E outcome \in RunOutcomes :
        LET q == [query EXCEPT !.runs = @ + 1] IN
        /\ DriverFaults(IF outcome = "ok" THEN 0 ELSE 1)
        /\ IF outcome = "ok"
           THEN /\ query' = [q EXCEPT !.pc = "done", !.result = "ok"]
                /\ UNCHANGED call
           ELSE IF outcome = "ServiceUnavailable"
                   /\ OnTransportFailure(query) = "reconnect"
           THEN /\ query' = [q EXCEPT !.pc = "reconnecting",
                                      !.reconnects = @ + 1]
                /\ StartRetryLoop("neo4j", "user", "connect_with_retry")
           ELSE /\ query' = [q EXCEPT !.pc = "done",
                                      !.result = "Neo4jConnectionError"]
                /\ UNCHANGED call
    /\ AdapterUnchanged
    /\ ConfigUnchanged
    /\ QueryFrame

\* connect_with_retry of the except clause returns: execute_query calls
\* itself (without the transaction argument), or the RetryExhaustedError
\* leaves the call
QueryReconnected ==
    /\ query.pc = "reconnecting"
    /\ call["neo4j"]["user"].pc = "done"
    /\ IF call["neo4j"]["user"].result = "ok"
       THEN EnsureConnected(query)
       ELSE /\ query' = [query EXCEPT !.pc = "done",
                                      !.result = call["neo4j"]["user"].result]
            /\ call' = [call EXCEPT !["neo4j"]["user"] = IdleCall]
    /\ AdapterUnchanged
    /\ NoFault
    /\ ConfigUnchanged
    /\ QueryFrame

\* the caller has the result; the next call may follow
QueryReturn ==
    /\ query.pc = "done"
    /\ query' = NoQuery
    /\ UNCHANGED call
    /\ AdapterUnchanged
    /\ NoFault
    /\ ConfigUnchanged
    /\ QueryFrame

InitQuery ==
    /\ EngineInit(FALSE)
    /\ FacadeInit
    /\ \E attempts \in 0..MaxRetry, auto \in BOOLEAN :
           SupervisorInit(attempts, 1, auto)
    /\ QueryInit /\ BatchInit /\ AstInit /\ IntentInit /\ SearchInit
    /\ ConfigInit

NextQuery ==
    \/ \E transaction \in BOOLEAN : ExecuteQuery(transaction)
    \/ QueryEnsured
    \/ QueryRun
    \/ QueryReconnected
    \/ QueryReturn
    \/ Attempt("neo4j", "user")
    \/ ConnectFinish("neo4j", "user")
    \/ Wake("neo4j", "user")
    \/ Tick

SpecQuery == InitQuery /\ [][NextQuery]_vars

\* ------------------------------------------------------------------ C23
\* C23: a call of execute_query without a transaction reconnects and re-runs
\* its query at most once, so that the second transport failure is raised;
\* a call with a transaction handle never reconnects after a transport
\* failure.
C23_ReconnectsAtMostOnce ==
    /\ query.reconnects <= 1
    /\ query.runs <= 2
    /\ query.transaction => query.reconnects = 0

\* ========================================= Neo4jConnection.batch_insert
BatchFrame ==
    UNCHANGED <<engine_vars, supervisor_vars, facade_vars,
                query, ast, intent, search, config>>

\* data[i:i + batch_size] (i counted from 0)
Slice(data, i, batch_size) ==
    SubSeq(data, i + 1, Min(i + batch_size, Len(data)))

\* batch_insert is called (the call before it is over) and ensure_connected
\* returns (connected) or raises; a connected call opens its session
BatchInsert(data, batch_size) ==
    /\ batch.pc \in {"idle", "done"}
    /\ \E connected \in BOOLEAN :
        batch' = IF connected
                 THEN [NoBatch EXCEPT !.pc = "session", !.data = data,
                                      !.batch_size = batch_size,
                                      !.sessions = 1]
                 ELSE [NoBatch EXCEPT !.pc = "done", !.data = data,
                                      !.batch_size = batch_size,
                                      !.raised = "RetryExhaustedError"]
    /\ BatchFrame

\* One pass of the loop "for i in range(0, len(data), batch_size)": the
\* slice is taken, session.run(query, batch[0]) is awaited and its counter
\* added; raises: the driver raised, which ends the call.
BatchRunSlice ==
    /\ batch.pc = "session"
    /\ batch.i < Len(batch.data)
    /\ LET slice == Slice(batch.data, batch.i, batch.batch_size) IN
       \E raises \in BOOLEAN, nodes_created \in 0..MaxCreated :
        batch' = IF raises
                 THEN [batch EXCEPT !.pc = "done",
                                    !.submitted = Append(@, <<slice[1]>>),
                                    !.raised = "Neo4jConnectionError"]
                 ELSE [batch EXCEPT !.submitted = Append(@, <<slice[1]>>),
                                    !.counters = Append(@, nodes_created),
                                    !.total_inserted = @ + nodes_created,
                                    !.i = @ + batch.batch_size]
    /\ BatchFrame

\* the loop is over: the session is left and the sum returned
BatchFinish ==
    /\ batch.pc = "session"
    /\ batch.i >= Len(batch.data)
    /\ batch' = [batch EXCEPT !.pc = "done", !.result = batch.total_inserted]
    /\ BatchFrame

\* the rows 1..n in the order given
Rows(n) == [k \in 1..n |-> k]

InitBatch ==
    /\ EngineInit(FALSE)
    /\ FacadeInit
    /\ SupervisorInit(MaxRetry, MaxDelay, TRUE)
    /\ QueryInit /\ BatchInit /\ AstInit /\ IntentInit /\ SearchInit
    /\ ConfigInit

NextBatch ==
    \/ \E n \in 0..MaxRows, batch_size \in 1..MaxBatch :
           BatchInsert(Rows(n), batch_size)
    \/ BatchRunSlice
    \/ BatchFinish

SpecBatch == InitBatch /\ [][NextBatch]_vars

\* ------------------------------------------------------------------ C24
\* ceil(n / b)
CeilDiv(n, b) == (n + b - 1) \div b

RECURSIVE SumSeq(_)
SumSeq(q) == IF q = <<>> THEN 0 ELSE q[1] + SumSeq(Tail(q))

\* the call returned a value
BatchReturned == batch.pc = "done" /\ batch.raised = "none"

\* C24: a batch_insert over n rows with batch size b that returns has run
\* exactly ceil(n / b) queries in one session, the k-th query received all
\* rows of the k-th slice, and the value returned is the sum of the
\* nodes-created counters of the queries.
C24_EverySliceSubmitted ==
    BatchReturned =>
        /\ batch.sessions = 1
        /\ Len(batch.submitted) = CeilDiv(Len(batch.data), batch.batch_size)
        /\ \A k \in 1..Len(batch.submitted) :
               batch.submitted[k] =
                   Slice(batch.data, (k - 1) * batch.batch_size,
                         batch.batch_size)
        /\ batch.result = SumSeq(batch.counters)

\* ====================================== GraphPostgresManager.store_ast_graph
AstFrame ==
    UNCHANGED <<engine_vars, supervisor_vars, facade_vars,
                query, batch, intent, search, config>>

\* the loop over the nodes of _validate_ast_graph, from node i on
RECURSIVE ValidateNodes(_, _)
ValidateNodes(nodes, i) ==
    IF i > Len(nodes) THEN "ok"
    ELSE IF nodes[i].id = Missing THEN "ValidationError"
    ELSE IF nodes[i].node_type = Missing THEN "ValidationError"
    ELSE ValidateNodes(nodes, i + 1)

\* an edge loop that does not look the endpoints up
RECURSIVE ValidateEdges_NoLookup(_, _, _)
ValidateEdges_NoLookup(edges, node_ids, i) ==
    IF i > Len(edges) THEN "ok"
    ELSE IF edges[i].source = Missing THEN "ValidationError"
    ELSE IF edges[i].target = Missing THEN "ValidationError"
    ELSE IF edges[i].type = Missing THEN "ValidationError"
    ELSE IF edges[i].type \notin EdgeTypes THEN "ValidationError"
    ELSE ValidateEdges_NoLookup(edges, node_ids, i + 1)

\* the loop over the edges of _validate_ast_graph, from edge i on
RECURSIVE ValidateEdges(_, _, _)
ValidateEdges(edges, node_ids, i) ==
    IF i > Len(edges) THEN "ok"
    ELSE IF edges[i].source = Missing THEN "ValidationError"
    ELSE IF edges[i].target = Missing THEN "ValidationError"
    ELSE IF edges[i].type = Missing THEN "ValidationError"
    ELSE IF edges[i].type \notin EdgeTypes THEN "ValidationError"
    ELSE IF edges[i].source \notin node_ids THEN "ValidationError"
    ELSE IF edges[i].target \notin node_ids THEN "ValidationError"
    ELSE ValidateEdges(edges, node_ids, i + 1)

\* GraphPostgresManager._validate_ast_graph (the payload's nodes and edges
\* are lists of dictionaries)
ValidateAstGraph(g) ==
    IF ~g.has_nodes THEN "ValidationError"
    ELSE IF ~g.has_edges THEN "ValidationError"
    ELSE IF ValidateNodes(g.nodes, 1) # "ok" THEN "ValidationError"
    ELSE ValidateEdges(g.edges,
                       {g.nodes[i].id : i \in 1..Len(g.nodes)}, 1)

\* node_props of a payload node: id, node_type and source_id, then
\* node_props.update(metadata), which replaces the values of the keys the
\* metadata has too
NodeProps(node, source_id, metadata) ==
    [id |-> IF metadata.id # Missing THEN metadata.id ELSE node.id,
     node_type |-> node.node_type,
     source_id |-> IF metadata.source_id # Missing THEN metadata.source_id
                   ELSE source_id]

\* node_data: the rows given to the node query
NodeData(nodes, source_id, metadata) ==
    [i \in 1..Len(nodes) |-> NodeProps(nodes[i], source_id, metadata)]

\* the keys the MERGE of the node query matches or creates nodes on
MergedKeys(node_data) ==
    {<<node_data[i].id, node_data[i].source_id>> : i \in 1..Len(node_data)}

\* MERGE (n:ASTNode {id: node.props.id, source_id: node.props.source_id})
\* for the rows from row i on: a node is created unless one with the key
\* exists
RECURSIVE MergeNodes(_, _, _)
MergeNodes(stored, node_data, i) ==
    IF i > Len(node_data) THEN stored
    ELSE LET k == <<node_data[i].id, node_data[i].source_id>> IN
         MergeNodes([stored EXCEPT ![k] = IF @ = 0 THEN 1 ELSE @],
                    node_data, i + 1)

\* SET n += node.props for the rows from row i on
RECURSIVE SetProps(_, _, _)
SetProps(types, node_data, i) ==
    IF i > Len(node_data) THEN types
    ELSE SetProps([types EXCEPT
                      ![<<node_data[i].id, node_data[i].source_id>>] =
                          node_data[i].node_type],
                  node_data, i + 1)

\* the key of the relationship an edge row asks for
EdgeKey(edge, source_id) ==
    <<edge.source, edge.type, edge.target, source_id>>

\* the number of (s, t) pairs the two MATCH clauses of an edge row find
Matches(stored_nodes, edge, source_id) ==
    stored_nodes[<<edge.source, source_id>>]
        * stored_nodes[<<edge.target, source_id>>]

\* CALL apoc.create.relationship for the rows from row i on: a relationship
\* is created for every matched pair
RECURSIVE CreateEdges(_, _, _, _, _)
CreateEdges(stored, stored_nodes, edges, source_id, i) ==
    IF i > Len(edges) THEN stored
    ELSE CreateEdges(
             [stored EXCEPT ![EdgeKey(edges[i], source_id)] =
                  @ + Matches(stored_nodes, edges[i], source_id)],
             stored_nodes, edges, source_id, i + 1)

\* MERGE (s)-[:TYPE]->(t) of the fallback for the rows from row i on: a
\* relationship is created unless one exists between the matched pair
RECURSIVE MergeEdges(_, _, _, _, _)
MergeEdges(stored, stored_nodes, edges, source_id, i) ==
    IF i > Len(edges) THEN stored
    ELSE MergeEdges(
             [stored EXCEPT ![EdgeKey(edges[i], source_id)] =
                  IF Matches(stored_nodes, edges[i], source_id) = 0 THEN @
                  ELSE IF @ = 0
                       THEN Matches(stored_nodes, edges[i], source_id)
                       ELSE @],
             stored_nodes, edges, source_id, i + 1)

\* store_ast_graph is called on an initialized facade (the call before it is
\* over): the payload is validated, and the first query is started
StoreAstGraph(g, s, metadata) ==
    /\ ast.pc \in {"idle", "done"}
    /\ ast.calls < MaxStores
    /\ LET begun == [ast EXCEPT
                        !.graph = g, !.source_id = s,
                        !.metadata = metadata, !.written = {},
                        !.before_nodes = ast.nodes,
                        !.before_types = ast.node_type,
                        !.before_edges = ast.edges,
                        !.repeat = /\ ast.pc = "done"
                                   /\ ast.raised = "none"
                                   /\ ast.graph = g
                                   /\ ast.source_id = s
                                   /\ ast.metadata = metadata,
                        !.queries = 0, !.total_nodes = 0, !.total_edges = 0,
                        !.raised = "none", !.calls = @ + 1]
       IN ast' = IF ValidateAstGraph(g) # "ok"
                 THEN [begun EXCEPT !.pc = "done",
                                    !.raised = "ValidationError"]
                 ELSE IF g.nodes # <<>> THEN [begun EXCEPT !.pc = "nodes"]
                 ELSE IF g.edges # <<>> THEN [begun EXCEPT !.pc = "edges"]
                 ELSE [begun EXCEPT !.pc = "done"]
    /\ AstFrame

\* the node query answers (the payloads here fit in one batch of 1000);
\* ok: it succeeded
AstNodesQuery ==
    /\ ast.pc = "nodes"
    /\ \E ok \in BOOLEAN :
        LET node_data == NodeData(ast.graph.nodes, ast.source_id,
                                  ast.metadata)
        IN
        ast' = IF ~ok
               THEN [ast EXCEPT !.pc = "done", !.queries = @ + 1,
                                !.raised = "DataOperationError"]
               ELSE [ast EXCEPT
                        !.pc = IF ast.graph.edges # <<>> THEN "edges"
                               ELSE "done",
                        !.queries = @ + 1,
                        !.written = MergedKeys(node_data),
                        !.nodes = MergeNodes(@, node_data, 1),
                        !.node_type = SetProps(@, node_data, 1),
                        !.total_nodes = @ + Len(ast.graph.nodes)]
    /\ AstFrame

\* The edge query answers.  "apoc": apoc.create.relationship ran; "fallback":
\* the query raised and the MERGE queries of the fallback ran; "fails": the
\* query and the fallback raised.
AstEdgesQuery ==
    /\ ast.pc = "edges"
    /\ \E outcome \in {"apoc", "fallback", "fails"} :
        ast' = IF outcome = "fails"
               THEN [ast EXCEPT !.pc = "done", !.queries = @ + 2,
                                !.raised = "DataOperationError"]
               ELSE IF outcome = "apoc"
               THEN [ast EXCEPT
                        !.pc = "done", !.queries = @ + 1,
                        !.edges = CreateEdges(@, ast.nodes, ast.graph.edges,
                                              ast.source_id, 1),
                        !.total_edges = @ + Len(ast.graph.edges)]
               ELSE [ast EXCEPT
                        !.pc = "done",
                        !.queries = @ + 1 + Cardinality(
                            {ast.graph.edges[i].type :
                                 i \in 1..Len(ast.graph.edges)}),
                        !.edges = MergeEdges(@, ast.nodes, ast.graph.edges,
                                             ast.source_id, 1),
                        !.total_edges = @ + Len(ast.graph.edges)]
    /\ AstFrame

\* sequences over S of length at most n
SeqsUpTo(S, n) == UNION {[1..k -> S] : k \in 0..n}

\* The payloads given to store_ast_graph: nodes and edges that have all
\* their fields, and ones that lack one field or have a type that is no
\* EdgeType; a payload may lack the key nodes or the key edges.
AstNodeInputs ==
    [id : AstIds, node_type : {"Module"}]
        \cup {[id |-> Missing, node_type |-> "Module"],
              [id |-> "a", node_type |-> Missing]}

AstEdgeInputs ==
    [source : AstIds, target : AstIds, type : {"CHILD", "NEXT"}]
        \cup {[source |-> Missing, target |-> "a", type |-> "CHILD"],
              [source |-> "a", target |-> Missing, type |-> "CHILD"],
              [source |-> "a", target |-> "a", type |-> Missing],
              [source |-> "a", target |-> "a", type |-> "CALLS"]}

AstPayloads ==
    [has_nodes : {TRUE}, has_edges : {TRUE},
     nodes : SeqsUpTo(AstNodeInputs, MaxAstNodes),
     edges : SeqsUpTo(AstEdgeInputs, MaxAstEdges)]
        \cup {[NoGraph EXCEPT !.has_nodes = TRUE],
              [NoGraph EXCEPT !.has_edges = TRUE], NoGraph}

\* the metadata arguments: none, one with the key id, one with the key
\* source_id
AstMetadatas ==
    {NoMetadata, [NoMetadata EXCEPT !.id = "b"],
     [NoMetadata EXCEPT !.source_id = "s2"]}

InitAst ==
    /\ EngineInit(FALSE)
    /\ FacadeInit
    /\ SupervisorInit(MaxRetry, MaxDelay, TRUE)
    /\ QueryInit /\ BatchInit /\ AstInit /\ IntentInit /\ SearchInit
    /\ ConfigInit

NextAst ==
    \/ \E g \in AstPayloads, s \in SourceIds, metadata \in AstMetadatas :
           StoreAstGraph(g, s, metadata)
    \/ AstNodesQuery
    \/ AstEdgesQuery

SpecAst == InitAst /\ [][NextAst]_vars

\* ------------------------------------------------------------------ C25
\* the ids of the payload's nodes
NodeIdsOf(g) == {g.nodes[i].id : i \in 1..Len(g.nodes)} \ {Missing}

\* the payload violates a rule of the claim
Violates(g) ==
    \/ ~g.has_nodes
    \/ ~g.has_edges
    \/ \E i \in 1..Len(g.nodes) :
           g.nodes[i].id = Missing \/ g.nodes[i].node_type = Missing
    \/ \E i \in 1..Len(g.edges) :
           \/ g.edges[i].source = Missing
           \/ g.edges[i].target = Missing
           \/ g.edges[i].type \notin EdgeTypes
           \/ g.edges[i].source \notin NodeIdsOf(g)
           \/ g.edges[i].target \notin NodeIdsOf(g)

\* a call of store_ast_graph is in progress or over
AstCalled == ast.pc # "idle"

\* C25: a call of store_ast_graph whose payload lacks nodes or edges, has a
\* node without id or node_type, or an edge without source, target or type,
\* with a type outside {CHILD, NEXT, DEPENDS_ON} or with an endpoint that is
\* not the id of a node of the payload, raises ValidationError, issues no
\* query and leaves the graph store as it was; every payload that is
\* accepted has all its edge endpoints among its own node ids.
C25_InvalidPayloadRejected ==
    AstCalled =>
        /\ Violates(ast.graph)
               => /\ ast.pc = "done"
                  /\ ast.raised = "ValidationError"
                  /\ ast.queries = 0
                  /\ ast.nodes = ast.before_nodes
                  /\ ast.edges = ast.before_edges
        /\ ast.raised # "ValidationError"
               => \A i \in 1..Len(ast.graph.edges) :
                      /\ ast.graph.edges[i].source \in NodeIdsOf(ast.graph)
                      /\ ast.graph.edges[i].target \in NodeIdsOf(ast.graph)

\* a payload was rejected for an edge that points at no node of the payload,
\* after an earlier call had filled the store
C25_Witness ==
    /\ ast.pc = "done"
    /\ ast.raised = "ValidationError"
    /\ ast.graph.has_nodes /\ ast.graph.has_edges
    /\ ValidateNodes(ast.graph.nodes, 1) = "ok"
    /\ \E i \in 1..Len(ast.graph.edges) :
           /\ ast.graph.edges[i].type \in EdgeTypes
           /\ ast.graph.edges[i].source \in NodeIdsOf(ast.graph)
           /\ ast.graph.edges[i].target \in AstIds \ NodeIdsOf(ast.graph)
    /\ \E k \in NodeKeys : ast.nodes[k] > 0

\* ------------------------------------------------------------------ C26
RECURSIVE SumOver(_, _)
SumOver(f, keys) ==
    IF keys = {} THEN 0
    ELSE LET k == CHOOSE x \in keys : TRUE
         IN  f[k] + SumOver(f, keys \ {k})

\* the number of relationships stored
EdgeCount(stored) == SumOver(stored, EdgeKeys)

\* C26: when store_ast_graph(g, s) returns for the second time in a row, the
\* graph store holds the same ASTNode nodes and the same number of edges as
\* after the first call, and every (node id, s) of g has exactly one stored
\* node.
C26_StoreTwiceSameAsOnce ==
    ast.pc = "done" /\ ast.raised = "none" /\ ast.repeat
        => /\ ast.nodes = ast.before_nodes
           /\ ast.node_type = ast.before_types
           /\ EdgeCount(ast.edges) = EdgeCount(ast.before_edges)
           /\ \A i \in 1..Len(ast.graph.nodes) :
                  ast.nodes[<<ast.graph.nodes[i].id, ast.source_id>>] = 1

\* ======================================================================
\* IntentManager: link_intent_to_ast, get_ast_nodes_by_intent,
\* search_ast_by_intent_vector, remove_intent_mapping (intent/manager.py),
\* reached through the forwarding methods of an initialized facade.  One
\* call is one action: link_intent_to_ast runs in one transaction, and the
\* other operations issue their statements on one pooled connection.
\* ======================================================================
IntentFrame ==
    UNCHANGED <<engine_vars, supervisor_vars, facade_vars, query, batch, ast,
                search, config>>

\* Python truth of an optional string argument
TruthyStr(x) == x \notin {"None", ""}

\* Python truth of an optional list of floats
TruthyVector(v) == v \notin {"none", "[]"}

\* json.dumps(metadata) if metadata else None, and its inverse on reading
JsonDumps(md) == IF md \in {"None", "{}"} THEN "NULL" ELSE md

JsonLoads(col) == IF col = "NULL" THEN "None" ELSE col

\* the rows of intent_ast_map with this (intent_id, ast_node_id)
RowOf(rows, i, n) == {r \in rows : r.intent_id = i /\ r.ast_node_id = n}

\* the rows of intent_ast_map of one intent
RowsOfIntent(rows, i) == {r \in rows : r.intent_id = i}

\* INSERT without the ON CONFLICT clause, on a table without the constraint
Upsert_AlwaysInsert(st, i, n, s, c, md, now) ==
    [rows |-> st.rows \cup
         {[id |-> st.next_id, intent_id |-> i, ast_node_id |-> n,
           source_id |-> s, confidence |-> c, metadata |-> JsonDumps(md),
           created_at |-> now, updated_at |-> now]},
     next_id |-> st.next_id + 1]

\* INSERT INTO intent_ast_map ... ON CONFLICT (intent_id, ast_node_id) DO
\* UPDATE SET source_id, confidence, metadata, updated_at
Upsert(st, i, n, s, c, md, now) ==
    IF RowOf(st.rows, i, n) = {}
    THEN [rows |-> st.rows \cup
              {[id |-> st.next_id, intent_id |-> i, ast_node_id |-> n,
                source_id |-> s, confidence |-> c, metadata |-> JsonDumps(md),
                created_at |-> now, updated_at |-> now]},
          next_id |-> st.next_id + 1]
    ELSE [rows |-> (st.rows \ RowOf(st.rows, i, n)) \cup
              {[r EXCEPT !.source_id = s, !.confidence = c,
                         !.metadata = JsonDumps(md), !.updated_at = now] :
                   r \in RowOf(st.rows, i, n)},
          next_id |-> st.next_id]

\* the loop over ast_node_ids
RECURSIVE InsertMappings(_, _, _, _, _, _, _)
InsertMappings(st, i, nodes, s, c, md, now) ==
    IF nodes = <<>> THEN st
    ELSE InsertMappings(Upsert(st, i, Head(nodes), s, c, md, now),
                        i, Tail(nodes), s, c, md, now)

\* the checks before the transaction
LinkValid(in) ==
    /\ in.intent_id # ""
    /\ in.nodes # <<>>
    /\ in.source_id # ""
    /\ 0 <= in.confidence /\ in.confidence <= ConfidenceOne
    /\ TruthyVector(in.vector) => in.vector # "short"

\* link_intent_to_ast(intent_id, ast_node_ids, source_id, confidence,
\* metadata, intent_vector); outcome "fails" is a statement that raises, which
\* rolls the transaction back
LinkIntentToAst(in, outcome) ==
    LET args == [NoIntentCall EXCEPT
                    !.op = "link", !.intent_id = in.intent_id,
                    !.nodes = in.nodes, !.source_id = in.source_id,
                    !.confidence = in.confidence, !.metadata = in.metadata,
                    !.vector = in.vector]
        now  == intent.now + 1
        st   == InsertMappings([rows |-> intent.rows,
                                next_id |-> intent.next_id],
                               in.intent_id, in.nodes, in.source_id,
                               in.confidence, in.metadata, now)
        stored == TruthyVector(in.vector) /\ intent.vector_table
        again  == /\ intent.call.op = "link" /\ intent.call.raised = "none"
                  /\ \A fld \in DOMAIN in : intent.call[fld] = in[fld]
    IN  /\ intent.now < MaxLinks
        /\ IF ~LinkValid(in)
           THEN /\ outcome = "ok"
                /\ intent' = [intent EXCEPT
                                 !.call = [args EXCEPT
                                              !.raised = "ValidationError"]]
           ELSE IF outcome = "fails"
           THEN intent' = [intent EXCEPT
                              !.call = [args EXCEPT
                                           !.raised = "DataOperationError"]]
           ELSE intent' = [intent EXCEPT
                              !.rows = st.rows,
                              !.next_id = st.next_id,
                              !.now = now,
                              !.vectors[in.intent_id] =
                                  IF stored THEN in.vector ELSE @,
                              !.call = [args EXCEPT
                                           !.count = Len(in.nodes),
                                           !.vector_stored = stored,
                                           !.repeat = again]]
        /\ IntentFrame

\* ORDER BY confidence DESC, created_at DESC
OrderedBefore(r1, r2) ==
    \/ r1.confidence > r2.confidence
    \/ r1.confidence = r2.confidence /\ r1.created_at >= r2.created_at

\* the lists in which the query may return these rows
Orderings(S) ==
    {seq \in [1..Cardinality(S) -> S] :
        /\ \A r \in S : \E j \in 1..Cardinality(S) : seq[j] = r
        /\ \A j1, j2 \in 1..Cardinality(S) :
               j1 < j2 => OrderedBefore(seq[j1], seq[j2])}

\* the dictionary built from one row
RowDict(r) ==
    [id |-> r.id, ast_node_id |-> r.ast_node_id, source_id |-> r.source_id,
     confidence |-> r.confidence, metadata |-> JsonLoads(r.metadata),
     created_at |-> r.created_at, updated_at |-> r.updated_at]

\* Python truth of the second argument of get_ast_nodes_by_intent
TruthyFilter(f) ==
    \/ f.kind = "str" /\ f.str # ""
    \/ f.kind = "float" /\ f.num # 0

\* IntentManager.get_ast_nodes_by_intent(intent_id, source_id); a float
\* compared with the VARCHAR column matches no row or makes the statement
\* raise
GetAstNodesByIntent(i, f, outcome) ==
    LET args == [NoIntentCall EXCEPT
                    !.op = "get", !.intent_id = i, !.filter = f]
        selected ==
            IF ~TruthyFilter(f) THEN RowsOfIntent(intent.rows, i)
            ELSE IF f.kind = "str"
            THEN {r \in RowsOfIntent(intent.rows, i) : r.source_id = f.str}
            ELSE {}
    IN  /\ outcome = "mismatch" => TruthyFilter(f) /\ f.kind = "float"
        /\ IF outcome \in {"fails", "mismatch"}
           THEN intent' = [intent EXCEPT
                              !.call = [args EXCEPT
                                           !.raised = "DataOperationError"]]
           ELSE \E seq \in Orderings(selected) :
                    intent' = [intent EXCEPT
                                  !.call = [args EXCEPT
                                               !.rows = [j \in 1..Len(seq) |->
                                                            RowDict(seq[j])]]]
        /\ IntentFrame

\* GraphPostgresManager.get_ast_nodes_by_intent(intent_id, min_confidence)
\* hands min_confidence over as the second positional argument
FacadeFilter(min_confidence) ==
    [kind |-> "float", str |-> "", num |-> min_confidence]

\* the intents a vector search can return: the join of intent_vectors and
\* intent_ast_map, for a search vector whose similarity reaches the threshold
\* exactly for the equal stored vector
Matching(q) ==
    {i \in IntentIds :
        intent.vectors[i] = q /\ RowsOfIntent(intent.rows, i) # {}}

\* search_ast_by_intent_vector(intent_vector, limit, threshold)
SearchAstByIntentVector(q, outcome) ==
    LET args == [NoIntentCall EXCEPT !.op = "search", !.vector = q]
    IN  /\ IF q = "short"
           THEN /\ outcome = "ok"
                /\ intent' = [intent EXCEPT
                                 !.call = [args EXCEPT
                                              !.raised = "ValidationError"]]
           ELSE IF outcome = "fails"
           THEN intent' = [intent EXCEPT
                              !.call = [args EXCEPT
                                           !.raised = "DataOperationError"]]
           ELSE intent' = [intent EXCEPT
                              !.call = [args EXCEPT
                                           !.matched =
                                               IF intent.vector_table
                                               THEN Matching(q) ELSE {}]]
        /\ IntentFrame

\* remove_intent_mapping(intent_id, ast_node_id).  The vector row is deleted
\* after the mapping rows when no ast_node_id was given and the first DELETE
\* reported rows; that statement raises when intent_vectors does not exist.
\* Whether a raising call keeps the rows it deleted depends on the
\* connection's commit mode: kept decides.
RemoveIntentMapping(i, n, outcome, kept) ==
    LET args == [NoIntentCall EXCEPT
                    !.op = "remove", !.intent_id = i, !.ast_node_id = n]
        gone  == IF TruthyStr(n) THEN RowOf(intent.rows, i, n)
                 ELSE RowsOfIntent(intent.rows, i)
        count == Cardinality(gone)
        second == ~TruthyStr(n) /\ count > 0
    IN  /\ outcome = "fails_second" => second
        /\ ~kept => outcome = "fails_second" \/ (second /\ ~intent.vector_table)
        /\ IF outcome = "fails"
           THEN intent' = [intent EXCEPT
                              !.call = [args EXCEPT
                                           !.raised = "DataOperationError"]]
           ELSE IF outcome = "fails_second"
                   \/ (second /\ ~intent.vector_table)
           THEN intent' = [intent EXCEPT
                              !.rows = IF kept THEN @ ELSE @ \ gone,
                              !.call = [args EXCEPT
                                           !.raised = "DataOperationError"]]
           ELSE intent' = [intent EXCEPT
                              !.rows = @ \ gone,
                              !.vectors[i] = IF second THEN "none" ELSE @,
                              !.call = [args EXCEPT !.count = count]]
        /\ IntentFrame

\* the arguments given to link_intent_to_ast: the accepted ones, and one
\* accepted call with each argument replaced by a value the checks or the
\* conversions treat differently
LinkBase ==
    [intent_id |-> "i1", nodes |-> <<"a">>, source_id |-> "s1",
     confidence |-> ConfidenceOne, metadata |-> "None", vector |-> "none"]

LinkInputs ==
    {[intent_id |-> i, nodes |-> ns, source_id |-> o.source_id,
      confidence |-> o.confidence, metadata |-> o.metadata,
      vector |-> o.vector] :
        i \in IntentIds, ns \in {<<"a">>, <<"a", "b">>},
        o \in {[source_id |-> "s1", confidence |-> ConfidenceOne,
                metadata |-> "None", vector |-> "none"],
               [source_id |-> "s1", confidence |-> ConfidenceOne,
                metadata |-> "m", vector |-> "v1"],
               [source_id |-> "s2", confidence |-> 0,
                metadata |-> "m", vector |-> "none"]}}
    \cup {[LinkBase EXCEPT !.intent_id = ""],
          [LinkBase EXCEPT !.nodes = <<>>],
          [LinkBase EXCEPT !.nodes = <<"a", "a">>],
          [LinkBase EXCEPT !.source_id = ""],
          [LinkBase EXCEPT !.confidence = ConfidenceOne + 1],
          [LinkBase EXCEPT !.metadata = "{}"],
          [LinkBase EXCEPT !.vector = "[]"],
          [LinkBase EXCEPT !.vector = "short"]}

\* the second argument given to get_ast_nodes_by_intent: a source id given
\* to the IntentManager, or a min_confidence given to the facade
SourceFilters ==
    {[kind |-> "none", str |-> "", num |-> 0]}
    \cup {[kind |-> "str", str |-> x, num |-> 0] : x \in {"s1", ""}}
    \cup {FacadeFilter(c) : c \in {0, 1}}

InitIntent ==
    /\ EngineInit(FALSE)
    /\ FacadeInit
    /\ SupervisorInit(MaxRetry, MaxDelay, TRUE)
    /\ QueryInit /\ BatchInit /\ AstInit /\ SearchInit
    /\ ConfigInit
    /\ intent \in {[NoIntent EXCEPT !.vector_table = t] : t \in BOOLEAN}

NextIntent ==
    \/ \E in \in LinkInputs, outcome \in {"ok", "fails"} :
           LinkIntentToAst(in, outcome)
    \/ \E i \in IntentIds, f \in SourceFilters,
          outcome \in {"ok", "fails", "mismatch"} :
           GetAstNodesByIntent(i, f, outcome)
    \/ \E q \in {"v1", "short"}, outcome \in {"ok", "fails"} :
           SearchAstByIntentVector(q, outcome)
    \/ \E i \in IntentIds, n \in {"None", "", "a"},
          outcome \in {"ok", "fails", "fails_second"}, kept \in BOOLEAN :
           RemoveIntentMapping(i, n, outcome, kept)

SpecIntent == InitIntent /\ [][NextIntent]_vars

\* ------------------------------------------------------------------ C27
\* the call returned without raising
LinkReturned(c) == c.op = "link" /\ c.raised = "none"

\* get_ast_nodes_by_intent(i) returns right after a link of intent i returned
C27_Get ==
    /\ LinkReturned(intent.call)
    /\ intent'.call.op = "get" /\ intent'.call.raised = "none"
    /\ intent'.call.intent_id = intent.call.intent_id
    /\ ~TruthyFilter(intent'.call.filter)
    => \A k \in 1..Len(intent.call.nodes) :
           \E j \in 1..Len(intent'.call.rows) :
               /\ intent'.call.rows[j].ast_node_id = intent.call.nodes[k]
               /\ intent'.call.rows[j].confidence = intent.call.confidence

\* the identical link returns a second time
C27_Repeat ==
    LinkReturned(intent'.call) /\ intent'.call.repeat
    /\ intent'.now = intent.now + 1
    => /\ Cardinality(intent'.rows) = Cardinality(intent.rows)
       /\ \A r1, r2 \in intent'.rows :
              r1.intent_id = r2.intent_id /\ r1.ast_node_id = r2.ast_node_id
                  => r1 = r2
       /\ \A r \in intent.rows :
              \E r2 \in intent'.rows :
                  /\ r2.id = r.id
                  /\ r2.intent_id = r.intent_id
                  /\ r2.ast_node_id = r.ast_node_id
                  /\ r2.created_at = r.created_at

C28_RemoveAllLeavesNothing ==
    /\ intent.call.op = "remove" /\ intent.call.raised = "none"
    /\ ~TruthyStr(intent.call.ast_node_id)
    => /\ RowsOfIntent(intent.rows, intent.call.intent_id) = {}
       /\ intent.vectors[intent.call.intent_id] = "none"

\* ======================================================================
\* SearchManager.search (search/manager.py): the branch searches run
\* concurrently under asyncio.gather, their lists are concatenated and
\* _rank_results merges, sorts and cuts them.  Scores and weights are
\* fractions [n, d] with d > 0, in lowest terms; the arithmetic is exact.
\* ======================================================================
SearchFrame ==
    UNCHANGED <<engine_vars, supervisor_vars, facade_vars, query, batch, ast,
                intent, config>>

Abs(x) == IF x < 0 THEN 0 - x ELSE x

RECURSIVE GCD(_, _)
GCD(a, b) == IF b = 0 THEN a ELSE GCD(b, a % b)

\* the fraction n / d, d > 0
Frac(n, d) ==
    LET g == GCD(Abs(n), d) IN [n |-> n \div g, d |-> d \div g]

\* a number given in tenths
Tenths(x) == Frac(x, 10)

FAdd(a, b) == Frac(a.n * b.d + b.n * a.d, a.d * b.d)

FMul(a, b) == Frac(a.n * b.n, a.d * b.d)

FDivInt(a, k) == Frac(a.n, a.d * k)

FLeq(a, b) == a.n * b.d <= b.n * a.d

\* SearchResult.__post_init__: a score outside [0, 1] is clamped
Clamp(score) ==
    IF FLeq(Tenths(0), score) /\ FLeq(score, Tenths(10)) THEN score
    ELSE IF FLeq(score, Tenths(0)) THEN Tenths(0) ELSE Tenths(10)

\* SearchResult(id=..., score=..., search_type=...)
SearchResult(id, raw, type) ==
    [id |-> id, score |-> Clamp(Tenths(raw)), search_type |-> type]

RECURSIVE SumWeights(_, _)
SumWeights(w, keys) ==
    IF keys = {} THEN 0
    ELSE LET k == CHOOSE x \in keys : TRUE
         IN  w[k] + SumWeights(w, keys \ {k})

\* SearchQuery.__post_init__: a non-empty mapping whose total is positive is
\* divided by its total; any other mapping is kept as given (in tenths)
NormalizeWeights(w) ==
    IF DOMAIN w # {} /\ SumWeights(w, DOMAIN w) > 0
    THEN [k \in DOMAIN w |-> Frac(w[k], SumWeights(w, DOMAIN w))]
    ELSE [k \in DOMAIN w |-> Tenths(w[k])]

\* SearchQuery(query, search_types, filters, vector, weights)
SearchQuery(types, vector, w, max_results) ==
    [search_types |-> types, vector |-> vector,
     weights |-> NormalizeWeights(w), max_results |-> max_results]

\* query.weights.get(r.search_type, 0.33)
WeightOf(w, t) == IF t \in DOMAIN w THEN w[t] ELSE Frac(33, 100)

\* sum(r.score * query.weights.get(r.search_type, 0.33) for r in group)
RECURSIVE WeightedSum(_, _)
WeightedSum(group, w) ==
    IF group = <<>> THEN Frac(0, 1)
    ELSE FAdd(FMul(Head(group).score, WeightOf(w, Head(group).search_type)),
              WeightedSum(Tail(group), w))

\* one result for the candidates of one id
Combine(group, w) ==
    IF Len(group) = 1 THEN group[1]
    ELSE [group[1] EXCEPT
             !.score = FDivInt(WeightedSum(group, w), Len(group)),
             !.search_type = "unified"]

\* the ids of the candidates, in the order of their first occurrence
RECURSIVE FirstIds(_, _)
FirstIds(results, seen) ==
    IF results = <<>> THEN <<>>
    ELSE IF Head(results).id \in seen THEN FirstIds(Tail(results), seen)
    ELSE <<Head(results).id>>
             \o FirstIds(Tail(results), seen \cup {Head(results).id})

\* grouped[result_id]
Group(results, id) == SelectSeq(results, LAMBDA r : r.id = id)

\* list.sort(key=score, reverse=True) is stable: x goes behind the results
\* whose score is not smaller
RECURSIVE InsertDesc(_, _)
InsertDesc(x, sorted) ==
    IF sorted = <<>> THEN <<x>>
    ELSE IF FLeq(x.score, Head(sorted).score)
    THEN <<Head(sorted)>> \o InsertDesc(x, Tail(sorted))
    ELSE <<x>> \o sorted

RECURSIVE SortDesc(_, _)
SortDesc(results, sorted) ==
    IF results = <<>> THEN sorted
    ELSE SortDesc(Tail(results), InsertDesc(Head(results), sorted))

\* SearchManager._rank_results(results, query)
RankResults(results, q) ==
    LET ids   == FirstIds(results, {})
        final == [j \in 1..Len(ids) |->
                     Combine(Group(results, ids[j]), q.weights)]
        ranked == SortDesc(final, <<>>)
    IN  SubSeq(ranked, 1, Min(Len(ranked), q.max_results))

\* the branch searches search starts
SearchTasks(q) ==
    IF "unified" \in q.search_types
    THEN {"graph", "text"} \cup (IF q.vector THEN {"vector"} ELSE {})
    ELSE q.search_types \cap Branches

\* the order in which the lists are concatenated
BranchOrder(q) ==
    IF "unified" \in q.search_types
    THEN <<"graph", "text", "vector">>
    ELSE <<"graph", "vector", "text">>

\* SearchManager.search(query) up to asyncio.gather
Search(q) ==
    /\ search.pc \in {"idle", "done"}
    /\ search' =
           IF SearchTasks(q) = {}
           THEN [NoSearch EXCEPT !.pc = "done", !.query = q]
           ELSE [NoSearch EXCEPT !.pc = "gathering", !.query = q,
                                 !.pending = SearchTasks(q)]
    /\ SearchFrame

\* a gather without return_exceptions: the branch search that raises ends
\* the wait, and the branch searches still running never finish
BranchDone_Cancels(t, raised, hits) ==
    /\ search.pc = "gathering"
    /\ t \in search.pending
    /\ raised => hits = <<>>
    /\ t = "vector" /\ ~search.query.vector => ~raised /\ hits = <<>>
    /\ search' = [search EXCEPT
                     !.pending = IF raised THEN {} ELSE @ \ {t},
                     !.hits[t] = hits,
                     !.finished = @ \cup {t},
                     !.failed = IF raised THEN @ \cup {t} ELSE @]
    /\ SearchFrame

\* one branch search finishes: with a list, or raising DataOperationError,
\* which gather(return_exceptions=True) hands back in place of the list;
\* _vector_search without a query vector returns the empty list
BranchDone(t, raised, hits) ==
    /\ search.pc = "gathering"
    /\ t \in search.pending
    /\ raised => hits = <<>>
    /\ t = "vector" /\ ~search.query.vector => ~raised /\ hits = <<>>
    /\ search' = [search EXCEPT
                     !.pending = @ \ {t},
                     !.hits[t] = hits,
                     !.finished = @ \cup {t},
                     !.failed = IF raised THEN @ \cup {t} ELSE @]
    /\ SearchFrame

\* what a branch search adds to all_results: an exception is skipped
Contribution(t) == IF t \in search.failed THEN <<>> ELSE search.hits[t]

\* every branch search has finished: the lists are combined and ranked
SearchReturn ==
    /\ search.pc = "gathering"
    /\ search.pending = {}
    /\ LET order == BranchOrder(search.query)
           all == Contribution(order[1]) \o Contribution(order[2])
                      \o Contribution(order[3])
       IN  search' = [search EXCEPT
                         !.pc = "done",
                         !.candidates = all,
                         !.returned = RankResults(all, search.query)]
    /\ SearchFrame

\* the lists a branch search may return
RECURSIVE HitLists(_, _)
HitLists(t, n) ==
    IF n = 0 THEN {<<>>}
    ELSE HitLists(t, n - 1)
         \cup {<<SearchResult(id, raw, t)>> \o rest :
                  id \in {"1", "2"}, raw \in {0 - 5, 5, 15},
                  rest \in {h \in HitLists(t, n - 1) : Len(h) = n - 1}}

\* the weights mappings given to SearchQuery, in tenths: the default, one that
\* names one type, the empty one, one with a negative weight, one whose total
\* is zero
WeightInputs ==
    {[t \in Branches |-> IF t = "text" THEN 2 ELSE 4],
     [t \in {"graph"} |-> 10],
     <<>>,
     [t \in {"graph", "text"} |-> IF t = "graph" THEN 50 ELSE 0 - 40],
     [t \in Branches |-> 0]}

SearchQueries ==
    {SearchQuery(types, vector, w, max_results) :
        types \in {{"unified"}, {"graph", "text"}, {"graph", "vector", "text"},
                   {"vector"}, {}},
        vector \in BOOLEAN, w \in WeightInputs, max_results \in {1, 2}}

InitSearch ==
    /\ EngineInit(FALSE)
    /\ FacadeInit
    /\ SupervisorInit(MaxRetry, MaxDelay, TRUE)
    /\ QueryInit /\ BatchInit /\ AstInit /\ IntentInit /\ SearchInit
    /\ ConfigInit

NextSearch ==
    \/ \E q \in SearchQueries : Search(q)
    \/ \E t \in Branches, raised \in BOOLEAN :
           \E hits \in HitLists(t, MaxHits) : BranchDone(t, raised, hits)
    \/ SearchReturn

SpecSearch == InitSearch /\ [][NextSearch]_vars

\* ------------------------------------------------------------------ C29
\* search has returned
SearchReturned == search.pc = "done"

\* C29: the list search returns is sorted by score descending, every score
\* lies in [0, 1], the list has at most filters.max_results entries, and no
\* id occurs twice.
C29_RankedBoundedUnique ==
    SearchReturned =>
        LET out == search.returned
        IN  /\ \A j \in 1..(Len(out) - 1) : FLeq(out[j + 1].score, out[j].score)
            /\ \A j \in 1..Len(out) :
                   FLeq(Tenths(0), out[j].score) /\ FLeq(out[j].score, Tenths(10))
            /\ Len(out) <= search.query.max_results
            /\ \A j1, j2 \in 1..Len(out) : out[j1].id = out[j2].id => j1 = j2

\* ------------------------------------------------------------------ C30
\* sum of the weights used for a group
RECURSIVE WeightTotal(_, _)
WeightTotal(group, w) ==
    IF group = <<>> THEN Frac(0, 1)
    ELSE FAdd(WeightOf(w, Head(group).search_type),
              WeightTotal(Tail(group), w))

\* C30: a returned result whose id several candidates share has origin
\* unified and, as score, the sum of weight x score divided by the sum of the
\* weights used; a returned result whose id one candidate has is that
\* candidate.
C30_MergeIsWeightedMean ==
    SearchReturned =>
        \A j \in 1..Len(search.returned) :
            LET r     == search.returned[j]
                group == Group(search.candidates, r.id)
                w     == search.query.weights
            IN  IF Len(group) = 1 THEN r = group[1]
                ELSE /\ r.search_type = "unified"
                     /\ FMul(r.score, WeightTotal(group, w))
                            = WeightedSum(group, w)

\* ------------------------------------------------------------------ C31
\* C31: when search has returned, every branch search it started has
\* finished (none was cancelled), the list handed to the ranking is the
\* concatenation of the lists of the branch searches that did not raise,
\* the returned list is its ranking, and search raised nothing.
C31_FailedBranchIsSkipped ==
    SearchReturned =>
        LET order == BranchOrder(search.query)
            ok(t) == IF t \in search.failed THEN <<>> ELSE search.hits[t]
        IN  /\ search.finished = SearchTasks(search.query)
            /\ search.candidates = ok(order[1]) \o ok(order[2]) \o ok(order[3])
            /\ search.returned = RankResults(search.candidates, search.query)
            /\ search.raised = "none"

\* a search returned results although one of its branch searches raised
C31_Witness ==
    /\ SearchReturned
    /\ search.failed # {}
    /\ search.failed # search.finished
    /\ search.returned # <<>>

\* ======================================================================
\* PostgresConnection driven by its caller: begin_transaction hands out a
\* handle, and the caller calls execute, prepare_transaction,
\* commit_transaction, rollback_transaction and commit_prepared on it
\* (connections/postgres.py).  The calls on handle tx are counted in
\* calls[tx]; a handle is used for prepare and execute only until it has
\* been given to commit_transaction or rollback_transaction.
\* ======================================================================
AdapterFrame ==
    UNCHANGED <<enable_two_phase_commit, active_transactions, next_id, stack,
                last_exited>>

\* the handle has not been given to commit_transaction or rollback_transaction
InUse(tx) == calls[tx]["p_commit"] = 0 /\ calls[tx]["p_rollback"] = 0

AdapterBegin(f) ==
    /\ Len(postgres_handles) < MaxCtx
    /\ Install(PostgresBeginTransaction(World, Len(postgres_handles) + 1, f).w)
    /\ UNCHANGED query_count
    /\ AdapterFrame

AdapterExecute(tx) ==
    /\ tx \in 1..Len(postgres_handles)
    /\ InUse(tx) /\ postgres_handles[tx].status = "open"
    /\ query_count < MaxExec
    /\ query_count' = query_count + 1
    /\ Install(PostgresExecute(World, tx, tx).w)
    /\ AdapterFrame

AdapterPrepare(tx, f) ==
    /\ tx \in 1..Len(postgres_handles)
    /\ InUse(tx) /\ postgres_handles[tx].status = "open"
    /\ calls[tx]["p_prepare"] = 0
    /\ Install(PostgresPrepareTransaction(World, tx, tx, f).w)
    /\ UNCHANGED query_count
    /\ AdapterFrame

AdapterCommit(tx, f) ==
    /\ tx \in 1..Len(postgres_handles)
    /\ InUse(tx)
    /\ Install(PostgresCommitTransaction(World, tx, tx, f).w)
    /\ UNCHANGED query_count
    /\ AdapterFrame

AdapterRollback(tx, f) ==
    /\ tx \in 1..Len(postgres_handles)
    /\ InUse(tx)
    /\ Install(PostgresRollbackTransaction(World, tx, tx, f).w)
    /\ UNCHANGED query_count
    /\ AdapterFrame

AdapterCommitPrepared(tx, f) ==
    /\ tx \in 1..Len(postgres_handles)
    /\ calls[tx]["p_commit_prepared"] = 0
    /\ Install(PostgresCommitPrepared(World, tx, tx, f).w)
    /\ UNCHANGED query_count
    /\ AdapterFrame

NextPostgres ==
    \/ \E f \in {"ok", "fail"} : AdapterBegin(f)
    \/ \E tx \in CtxIds : AdapterExecute(tx)
    \/ \E tx \in CtxIds, f \in {"ok", "fail"} : AdapterPrepare(tx, f)
    \/ \E tx \in CtxIds, f \in Faults : AdapterCommit(tx, f)
    \/ \E tx \in CtxIds, f \in Faults : AdapterRollback(tx, f)
    \/ \E tx \in CtxIds, f \in Faults : AdapterCommitPrepared(tx, f)

SpecPostgres == Init /\ [][NextPostgres]_vars

\* ------------------------------------------------------------------ C32
\* C32: when rollback_transaction has returned for a handle, prepared or
\* not, that handle's transaction is not among the prepared transactions of
\* the relational store.
C32_RollbackLeavesNothingPrepared ==
    \A tx \in 1..Len(postgres_handles) :
        calls[tx]["p_rollback"] > 0 /\ "p_rollback" \notin faulted[tx]
            => postgres_handles[tx].status # "prepared"

\* ======================================================================
\* ConnectionConfig: construction and mask_sensitive_data (config.py).
\* A text is a sequence of one-character strings.
\* ======================================================================
ConfigFrame ==
    UNCHANGED <<engine_vars, supervisor_vars, facade_vars, service_vars>>

\* text.index(sub) + 1, and 0 when sub does not occur in text
IndexOf(text, sub) ==
    LET at == {i \in 1..(Len(text) - Len(sub) + 1) :
                  SubSeq(text, i, i + Len(sub) - 1) = sub}
    IN  IF at = {} THEN 0 ELSE CHOOSE i \in at : \A j \in at : i <= j

\* sub in text
Contains(text, sub) == sub = <<>> \/ IndexOf(text, sub) > 0

Stars == <<"*", "*", "*", "*">>

\* ConnectionConfig._mask_dsn
MaskDsn(dsn) ==
    IF Contains(dsn, <<":", "/", "/">>) /\ Contains(dsn, <<"@">>)
    THEN LET scheme_end == IndexOf(dsn, <<":", "/", "/">>) + 2
             at_sign    == IndexOf(dsn, <<"@">>) - 1
             auth_part  == IF at_sign > scheme_end
                           THEN SubSeq(dsn, scheme_end + 1, at_sign)
                           ELSE <<>>
         IN  IF Contains(auth_part, <<":">>)
             THEN SubSeq(dsn, 1, Min(scheme_end, Len(dsn)))
                      \o SubSeq(auth_part, 1, IndexOf(auth_part, <<":">>))
                      \o Stars
                      \o SubSeq(dsn, at_sign + 1, Len(dsn))
             ELSE dsn
    ELSE dsn

\* ConnectionConfig._validate on the texts (the numeric fields keep their
\* defaults, which pass)
ConfigValid(c) ==
    /\ c.neo4j_uri # <<>>
    /\ c.postgres_dsn # <<>>
    /\ c.neo4j_auth[1] # <<>> /\ c.neo4j_auth[2] # <<>>

\* ConnectionConfig(neo4j_uri, neo4j_auth, postgres_dsn)
NewConnectionConfig(c) ==
    /\ config.calls = 0
    /\ config' =
           IF ConfigValid(c)
           THEN [NoConfig EXCEPT
                    !.built = TRUE, !.neo4j_uri = c.neo4j_uri,
                    !.neo4j_auth = c.neo4j_auth,
                    !.postgres_dsn = c.postgres_dsn,
                    !.password = c.password, !.calls = 1]
           ELSE [NoConfig EXCEPT !.raised = "ConfigurationError", !.calls = 1]
    /\ ConfigFrame

\* ConnectionConfig.mask_sensitive_data: the values that are texts
MaskSensitiveData ==
    /\ config.built
    /\ config.calls = 1
    /\ config' =
           [config EXCEPT
               !.calls = 2,
               !.masked =
                   [k \in {"neo4j_uri", "neo4j_user", "neo4j_password",
                           "postgres_dsn"} |->
                       CASE k = "neo4j_uri" -> config.neo4j_uri
                         [] k = "neo4j_user" -> config.neo4j_auth[1]
                         [] k = "neo4j_password" ->
                                IF config.neo4j_auth[2] # <<>> THEN Stars
                                ELSE <<>>
                         [] OTHER -> MaskDsn(config.postgres_dsn)]]
    /\ ConfigFrame

\* passwords a DSN may carry
DsnPasswords == {<<"s">>, <<"s", "t">>, <<"s", "@", "t">>}

\* the DSN texts given to the constructor, each with the password it carries:
\* URLs with and without a password, a keyword/value connection string, a URL
\* with the password as a query parameter, and the empty text
DsnInputs ==
    {[text |-> <<"p", ":", "/", "/", "u", ":">> \o pw \o <<"@", "h">>,
      password |-> pw] : pw \in DsnPasswords}
    \cup {[text |-> <<"h", "=", "h", " ", "p", "w", "=">> \o pw,
           password |-> pw] : pw \in DsnPasswords}
    \cup {[text |-> <<"p", ":", "/", "/", "u", "@", "h", "?", "p", "w", "=">>
                        \o pw,
           password |-> pw] : pw \in DsnPasswords}
    \cup {[text |-> <<"p", ":", "/", "/", "u", "@", "h">>, password |-> <<>>],
          [text |-> <<"p", ":", "/", "/", "h">>, password |-> <<>>],
          [text |-> <<"d">>, password |-> <<>>],
          [text |-> <<>>, password |-> <<>>]}

ConfigInputs ==
    {[neo4j_uri |-> uri, neo4j_auth |-> <<user, secret>>,
      postgres_dsn |-> d.text, password |-> d.password] :
        uri \in {<<"b", ":", "/", "/", "h">>, <<"n", ":", "/", "/", "h">>, <<>>},
        user \in {<<"n">>, <<"m">>, <<>>},
        secret \in {<<"g">>, <<"g", "k">>, <<>>},
        d \in DsnInputs}

NextConfig ==
    \/ \E c \in ConfigInputs : NewConnectionConfig(c)
    \/ MaskSensitiveData

InitConfig ==
    /\ EngineInit(FALSE)
    /\ FacadeInit
    /\ SupervisorInit(MaxRetry, MaxDelay, TRUE)
    /\ QueryInit /\ BatchInit /\ AstInit /\ IntentInit /\ SearchInit
    /\ ConfigInit

SpecConfig == InitConfig /\ [][NextConfig]_vars

\* ------------------------------------------------------------------ C33
\* C33: no text in the output of mask_sensitive_data contains the graph
\* secret or the password the DSN carries.
C33_MaskHidesSecrets ==
    config.calls = 2 =>
        \A k \in DOMAIN config.masked :
            /\ ~Contains(config.masked[k], config.neo4j_auth[2])
            /\ config.password # <<>>
                   => ~Contains(config.masked[k], config.password)

\* ------------------------------------------------------------------ C34
\* C34: when the scope of a non-nested transaction has exited, every handle
\* its begin obtained is committed or rolled back on its adapter.
C34_HandlesFinishedAtExit ==
    \A c \in CtxIds :
        TopLevel(c) /\ ScopeExited(c) =>
            /\ NeoStatus(c) \in {"none", "committed", "rolled_back"}
            /\ PgStatus(c) \in {"none", "committed", "rolled_back"}

\* ------------------------------------------------------------------ C35
\* the contexts whose transaction scope is open on some task
OpenScopes == {c \in CtxIds : \E t \in Tasks : \E k \in DOMAIN stack[t] : stack[t][k] = c}

\* C35: the registry of live transactions holds exactly the ids of the
\* contexts whose scope is open, whatever way the other scopes exited; it is
\* empty when no scope is open.
C35_RegistryIsOpenScopes == active_transactions = OpenScopes

\* a second context was created, the last scope to exit did so with an
\* exception, and the registry is empty again
C35_Witness ==
    /\ active_transactions = {}
    /\ last_exited # None
    /\ exc[last_exited].scope \notin {"none", "ok"}
    /\ next_id >= 2

\* ------------------------------------------------------------------ C36
\* C36: Committed, RolledBack and Failed are absorbing.  The log of a context
\* records each arrival in one of them ("commit" is appended on entering
\* Committed, "rollback" on entering RolledBack, "commit_failed" and
\* "rollback_failed" on entering Failed), so the claim says: a context whose
\* log holds such an entry is still in the state that entry records.
C36_TerminalStatesAbsorbing ==
    \A c \in CtxIds :
        \A k \in DOMAIN ctx[c].operations :
            LET a == ctx[c].operations[k].action IN
            /\ a = "commit" => ctx[c].state = "committed"
            /\ a = "rollback" => ctx[c].state = "rolled_back"
            /\ a \in {"commit_failed", "rollback_failed"} => ctx[c].state = "failed"

\* ------------------------------------------------------------------ C37
\* C37: at most one health-check loop task is alive at any time, and none is
\* alive once close has returned.
C37_AtMostOneHealthLoop ==
    LET alive == {i \in LoopIds : loop[i].pc \notin {"absent", "terminated"}} IN
    /\ Cardinality(alive) <= 1
    /\ last_returned = "close" /\ facade_pc = "idle" => alive = {}

\* ------------------------------------------------------------------ C38
\* C38: connect attempts on one adapter are serialized: no adapter has the
\* connect of two connect_with_retry executions in progress at once.
C38_ConnectAttemptsSerialized ==
    \A a \in Adapters :
        Cardinality({k \in Callers : /\ call[a][k].pc = "connecting"
                                    /\ call[a][k].op # "connect"}) <= 1

\* ------------------------------------------------------------------ C39
\* C39: a pass of connect_with_retry that the open breaker rejects leaves the
\* time of the breaker's last failure as it was.
C39_RejectionKeepsLastFailure ==
    [][\A a \in Adapters : \A k \in Callers :
          (/\ Len(call'[a][k].outcomes) = Len(call[a][k].outcomes) + 1
           /\ call'[a][k].outcomes[Len(call'[a][k].outcomes)] = "short_circuit")
          => circuit_breaker_last_failure'[a] = circuit_breaker_last_failure[a]]_vars

\* ------------------------------------------------------------------ C40
\* C40: the ASTNode nodes a call store_ast_graph(g, s, metadata) wrote have
\* the id of their payload node and the source id s, whatever the metadata:
\* the keys its node query merged on are the pairs (id of a node of g, s).
C40_WrittenNodesKeyedByPayload ==
    ast.pc \in {"edges", "done"} /\ ast.queries > 0 /\ ast.written # {}
        => ast.written =
               {<<ast.graph.nodes[i].id, ast.source_id>> :
                    i \in 1..Len(ast.graph.nodes)}

====
